---- MODULE Spec2Model ----
(***************************************************************************)
(* Model of the preference-learning and recommendation core of wardrowbe:  *)
(*   backend/app/services/learning_service.py        (LearningService)     *)
(*   backend/app/services/recommendation_service.py  (RecommendationService)*)
(*   backend/app/api/outfits.py                      (feedback endpoints)  *)
(*                                                                         *)
(* Numbers.  The code computes in floats and rounds before storing.  The   *)
(* model computes the same quantities exactly, as integers:                *)
(*   signals and learned scores   in thousandths (0.3 is 300),             *)
(*   compatibility scores         in ten-thousandths (Numeric(5,4)),       *)
(*   rates                        in ten-thousandths, averages in          *)
(*                                hundredths.                              *)
(* Optional values.  Python's None is the empty sequence and a present     *)
(* value v is the one-element sequence <<v>>.                              *)
(***************************************************************************)
EXTENDS Integers, Sequences, FiniteSets, Bags, TLC

VARIABLES
    sig,           \* one call of _get_outfit_signal: its outfit and its result
    outfits,       \* table outfits with its outfit_items and user_feedback rows
    items,         \* wear and wash columns of table clothing_items
    pair_scores,   \* table item_pair_scores, a bag of rows
    performances,  \* table outfit_performances, keyed by outfit_id
    profile,       \* row of table user_learning_profiles of the user, or None
    calls,         \* number of requests served so far, deletions apart
    last_call,     \* the last request served and its response
    closet,        \* owner, status and is_archived of table clothing_items
    item_history,  \* items with an item_history row of the user's today
    preferences,   \* row of table user_preferences of the user, or None
    rec,           \* one call of generate_recommendation and its outcome
    parse,         \* one model response and the item numbers read from it
    now,           \* the time, in half hours
    insights,      \* table style_insights, in the order of insertion
    race,          \* two feedback requests served concurrently: their progress
    ai_call,       \* one call of AIService.generate_text: its attempts and outcome
    notifications  \* table notifications, in the order of insertion

vars == <<sig, outfits, items, pair_scores, performances, profile,
          calls, last_call, closet, item_history, preferences, rec, parse,
          now, insights, race, ai_call, notifications>>

auxVars == <<ai_call, notifications>>

recVars == <<closet, item_history, preferences, rec, parse>>

learnVars == <<outfits, items, pair_scores, performances, profile,
               calls, last_call>>

None == <<>>
Some(v) == <<v>>

\* generate_text has not been called
NoAICall ==
    [user_endpoints |-> <<>>, endpoints |-> <<>>, attempts |-> <<>>,
     result |-> "none", content |-> <<>>]

Max(a, b) == IF a >= b THEN a ELSE b
Min(a, b) == IF a <= b THEN a ELSE b

-----------------------------------------------------------------------------
(* Domain of the outfit and feedback fields.                               *)

OutfitStatus == {"pending", "sent", "viewed", "accepted", "rejected", "expired"}

MinRating == 1
MaxRating == 5
Ratings == MinRating..MaxRating

OptBool == {None, Some(TRUE), Some(FALSE)}
OptRating == {None} \cup {Some(r) : r \in Ratings}

-----------------------------------------------------------------------------
(* LearningService._get_outfit_signal, in thousandths.                     *)

\* the same without the final clamp
_get_outfit_signal_noclamp(outfit) ==
    LET fb == outfit.feedback
        s0 == IF outfit.status = "accepted" THEN 300
              ELSE IF outfit.status = "rejected" THEN -500
              ELSE 0
        s1 == IF fb # None /\ fb[1].rating # None
              THEN s0 + ((fb[1].rating[1] - 3) * 400) \div 2
              ELSE s0
        s2 == IF fb # None /\ fb[1].worn_at # None
              THEN s1 + 300 - (IF fb[1].worn_with_modifications THEN 100 ELSE 0)
              ELSE s1
        s3 == IF fb # None /\ fb[1].actually_worn = Some(FALSE)
              THEN s2 - 400 - (IF fb[1].wore_instead_items # <<>> THEN 200 ELSE 0)
              ELSE s2
    IN  s3

\* the same, the penalty for naming substitutes left out
_get_outfit_signal_nosubst(outfit) ==
    LET fb == outfit.feedback
        s0 == IF outfit.status = "accepted" THEN 300
              ELSE IF outfit.status = "rejected" THEN -500
              ELSE 0
        s1 == IF fb # None /\ fb[1].rating # None
              THEN s0 + ((fb[1].rating[1] - 3) * 400) \div 2
              ELSE s0
        s2 == IF fb # None /\ fb[1].worn_at # None
              THEN s1 + 300 - (IF fb[1].worn_with_modifications THEN 100 ELSE 0)
              ELSE s1
        s3 == IF fb # None /\ fb[1].actually_worn = Some(FALSE)
              THEN s2 - 400
              ELSE s2
    IN  Max(-1000, Min(1000, s3))

\* the same with the weight of a rejection taken from the pair scores
_get_outfit_signal_reject300(outfit) ==
    LET fb == outfit.feedback
        s0 == IF outfit.status = "accepted" THEN 300
              ELSE IF outfit.status = "rejected" THEN -300
              ELSE 0
        s1 == IF fb # None /\ fb[1].rating # None
              THEN s0 + ((fb[1].rating[1] - 3) * 400) \div 2
              ELSE s0
        s2 == IF fb # None /\ fb[1].worn_at # None
              THEN s1 + 300 - (IF fb[1].worn_with_modifications THEN 100 ELSE 0)
              ELSE s1
        s3 == IF fb # None /\ fb[1].actually_worn = Some(FALSE)
              THEN s2 - 400 - (IF fb[1].wore_instead_items # <<>> THEN 200 ELSE 0)
              ELSE s2
    IN  Max(-1000, Min(1000, s3))

_get_outfit_signal(outfit) ==
    LET fb == outfit.feedback
        s0 == IF outfit.status = "accepted" THEN 300
              ELSE IF outfit.status = "rejected" THEN -500
              ELSE 0
        s1 == IF fb # None /\ fb[1].rating # None
              THEN s0 + ((fb[1].rating[1] - 3) * 400) \div 2
              ELSE s0
        s2 == IF fb # None /\ fb[1].worn_at # None
              THEN s1 + 300 - (IF fb[1].worn_with_modifications THEN 100 ELSE 0)
              ELSE s1
        s3 == IF fb # None /\ fb[1].actually_worn = Some(FALSE)
              THEN s2 - 400 - (IF fb[1].wore_instead_items # <<>> THEN 200 ELSE 0)
              ELSE s2
    IN  Max(-1000, Min(1000, s3))

-----------------------------------------------------------------------------
(* The wardrobe: the clothing_items rows of the one user that is modelled.  *)
(* The columns the learning code reads never change in the model; they are *)
(* given as functions of the item number.                                  *)

NItems == 3
Items == 1..NItems

USER == "u1"

\* ClothingItem.primary_color
ItemColor(i) ==
    CASE i % 3 = 1 -> Some("blue")
      [] i % 3 = 2 -> Some("red")
      [] OTHER -> None

\* ClothingItem.style
ItemStyle(i) ==
    CASE i % 3 = 1 -> <<"casual">>
      [] i % 3 = 2 -> <<"casual", "sporty">>
      [] OTHER -> <<>>

\* ClothingItem.type
ItemType(i) ==
    CASE i % 3 = 1 -> "shirt"
      [] i % 3 = 2 -> "pants"
      [] OTHER -> "sandals"

\* DEFAULT_WASH_INTERVALS.get(type, 3), for the types above
DEFAULT_WASH_INTERVALS(type) ==
    CASE type = "shirt" -> 2
      [] type = "pants" -> 4
      [] OTHER -> 3

\* no call of generate_recommendation yet
NoRec ==
    [result |-> "none", exclude_items |-> <<>>, include_items |-> <<>>,
     candidates |-> <<>>, ai_called |-> FALSE, content |-> <<>>,
     response |-> <<>>, detail |-> ""]

\* no model response read yet
NoParse == [content |-> <<>>, result |-> "none", selected |-> <<>>]

\* the tables that only the recommendation reads are left out
NoRecommendation ==
    /\ closet = <<>>
    /\ item_history = {}
    /\ preferences = None
    /\ rec = NoRec
    /\ parse = NoParse

\* ClothingItem as created: never worn
NewItem ==
    [wear_count |-> 0, wears_since_wash |-> 0, needs_wash |-> FALSE,
     last_worn_at |-> None]

\* `now` counts half hours
HalfHoursPerDay == 48

\* get_user_today: the calendar date of the instant t, for the two days
\* the model covers
get_user_today(t) == IF t < HalfHoursPerDay THEN "today" ELSE "tomorrow"

\* the wear and wash update of submit_feedback, for one item
WearItem(row, i) ==
    [wear_count |-> row.wear_count + 1,
     last_worn_at |-> Some(get_user_today(now)),
     wears_since_wash |-> row.wears_since_wash + 1,
     needs_wash |-> (row.wears_since_wash + 1 >= DEFAULT_WASH_INTERVALS(ItemType(i)))]

-----------------------------------------------------------------------------
(* Helpers: rounding, sums, sequences, maps.                               *)

\* round(n / d) to the nearest integer, ties to even, d > 0
RoundDiv(n, d) ==
    LET q == n \div d
        r == n % d
    IN  IF 2 * r < d THEN q
        ELSE IF 2 * r > d THEN q + 1
        ELSE IF q % 2 = 0 THEN q ELSE q + 1

RECURSIVE SumSeq(_)
SumSeq(s) == IF s = <<>> THEN 0 ELSE s[1] + SumSeq(Tail(s))

RECURSIVE SortedSeq(_)
\* the elements of a finite set of integers in ascending order
SortedSeq(S) ==
    IF S = {} THEN <<>>
    ELSE LET m == CHOOSE x \in S : \A y \in S : x <= y
         IN  <<m>> \o SortedSeq(S \ {m})

Range(s) == {s[k] : k \in DOMAIN s}

IsInjective(s) == \A a, b \in DOMAIN s : s[a] = s[b] => a = b

\* all orders of the elements of a finite set
Perms(S) == {s \in [1..Cardinality(S) -> S] : IsInjective(s)}

EmptyMap == <<>>

MapPut(m, k, v) == [x \in (DOMAIN m) \cup {k} |-> IF x = k THEN v ELSE m[x]]

\* itertools.combinations(s, 2): the pairs <<s[a], s[b]>>, a < b, in order
RECURSIVE Combinations2(_)
Combinations2(s) ==
    IF Len(s) < 2 THEN <<>>
    ELSE [k \in 1..(Len(s) - 1) |-> <<s[1], s[k + 1]>>] \o Combinations2(Tail(s))

-----------------------------------------------------------------------------
(* Pair scores: LearningService._update_item_pair_scores,                  *)
(* _process_wore_instead, _compute_pair_compatibility, _get_temp_bucket.   *)

MIN_PAIRS_FOR_SCORING == 2

\* the same, but a cut point belongs to the bucket below it
_get_temp_bucket_inclusive(temp) ==
    IF temp <= 50 THEN "cold"
    ELSE IF temp <= 150 THEN "cool"
    ELSE IF temp <= 250 THEN "mild"
    ELSE "hot"

\* temperatures are in tenths of a degree
_get_temp_bucket(temp) ==
    IF temp < 50 THEN "cold"
    ELSE IF temp < 150 THEN "cool"
    ELSE IF temp < 250 THEN "mild"
    ELSE "hot"

\* the same with the weights of acceptance and rating exchanged
_compute_pair_compatibility_swapped(pair) ==
    IF pair.times_paired < MIN_PAIRS_FOR_SCORING THEN 0
    ELSE LET total_responses == pair.times_accepted + pair.times_rejected
             an == IF total_responses > 0 THEN pair.times_accepted ELSE 1
             ad == IF total_responses > 0 THEN total_responses ELSE 2
             rn == IF pair.rating_count > 0
                   THEN pair.total_rating_sum - pair.rating_count ELSE 1
             rd == IF pair.rating_count > 0 THEN 4 * pair.rating_count ELSE 2
         IN  RoundDiv(8000 * an * rd + 12000 * rn * ad - 10000 * ad * rd, ad * rd)

\* ((acceptance_rate * 0.6 + rating_score * 0.4) * 2 - 1) rounded to 4
\* places, in ten-thousandths; acceptance_rate = an / ad, rating_score =
\* rn / rd
_compute_pair_compatibility(pair) ==
    IF pair.times_paired < MIN_PAIRS_FOR_SCORING THEN 0
    ELSE LET total_responses == pair.times_accepted + pair.times_rejected
             an == IF total_responses > 0 THEN pair.times_accepted ELSE 1
             ad == IF total_responses > 0 THEN total_responses ELSE 2
             rn == IF pair.rating_count > 0
                   THEN pair.total_rating_sum - pair.rating_count ELSE 1
             rd == IF pair.rating_count > 0 THEN 4 * pair.rating_count ELSE 2
         IN  RoundDiv(12000 * an * rd + 8000 * rn * ad - 10000 * ad * rd, ad * rd)

\* ItemPairScore(user_id, item1_id, item2_id) with the column defaults
NewPairScore(user_id, id1, id2) ==
    [user_id |-> user_id, item1_id |-> id1, item2_id |-> id2,
     compatibility_score |-> 0,
     times_paired |-> 0, times_accepted |-> 0, times_rejected |-> 0,
     total_rating_sum |-> 0, rating_count |-> 0,
     occasion_performance |-> EmptyMap, weather_performance |-> EmptyMap]

\* the rows select(ItemPairScore).where(user_id, item1_id, item2_id) finds
FindPairScores(rows, user_id, id1, id2) ==
    {r \in BagToSet(rows) :
        r.user_id = user_id /\ r.item1_id = id1 /\ r.item2_id = id2}

\* "get or create pair score": scalar_one_or_none, else a new row
GetOrCreatePairScore(rows, user_id, id1, id2) ==
    LET found == FindPairScores(rows, user_id, id1, id2)
    IN  IF found = {} THEN NewPairScore(user_id, id1, id2)
        ELSE CHOOSE r \in found : TRUE

\* the table after the session writes row `new` in place of the row read
PutPairScore(rows, user_id, id1, id2, new) ==
    LET found == FindPairScores(rows, user_id, id1, id2)
    IN  IF found = {} THEN rows (+) SetToBag({new})
        ELSE (rows (-) SetToBag({CHOOSE r \in found : TRUE})) (+) SetToBag({new})

\* the same, the two ids kept in the order of the items
CanonicalPair_unordered(id1, id2) == <<id1, id2>>

\* id1, id2 = (item1.id, item2.id) if item1.id < item2.id else (item2.id, item1.id)
CanonicalPair(id1, id2) == IF id1 < id2 THEN <<id1, id2>> ELSE <<id2, id1>>

\* "Determine feedback signal": is_positive of _update_item_pair_scores
IsPositive(feedback) ==
    LET p0 == feedback.accepted = Some(TRUE)
        s0 == IF feedback.accepted = None THEN 0
              ELSE IF feedback.accepted[1] THEN 300 ELSE -300
        s1 == IF feedback.rating # None
              THEN s0 + (feedback.rating[1] - 3) * 150 ELSE s0
        p1 == IF feedback.rating # None THEN s1 > 0 ELSE p0
    IN  IF feedback.worn_at # None THEN TRUE ELSE p1

\* the same, but only the events that are not positive are counted
BumpPerformance_uncounted(perf, key, is_positive) ==
    LET old == IF key \in DOMAIN perf THEN perf[key]
               ELSE [count |-> 0, positive |-> 0]
    IN  MapPut(perf, key,
               [count |-> old.count + (IF is_positive THEN 0 ELSE 1),
                positive |-> old.positive + (IF is_positive THEN 1 ELSE 0)])

\* one entry of occasion_performance or weather_performance counted
BumpPerformance(perf, key, is_positive) ==
    LET old == IF key \in DOMAIN perf THEN perf[key]
               ELSE [count |-> 0, positive |-> 0]
    IN  MapPut(perf, key,
               [count |-> old.count + 1,
                positive |-> old.positive + (IF is_positive THEN 1 ELSE 0)])

\* the body of the loop of _update_item_pair_scores for one pair
UpdatedPairScore(pair, outfit) ==
    LET feedback == outfit.feedback[1]
        counted ==
            [pair EXCEPT
                !.times_paired = @ + 1,
                !.times_accepted = @ + (IF feedback.accepted = Some(TRUE) THEN 1 ELSE 0),
                !.times_rejected = @ + (IF feedback.accepted = Some(FALSE) THEN 1 ELSE 0),
                !.total_rating_sum = @ + (IF feedback.rating # None
                                          THEN feedback.rating[1] ELSE 0),
                !.rating_count = @ + (IF feedback.rating # None THEN 1 ELSE 0),
                !.occasion_performance =
                    BumpPerformance(@, outfit.occasion, IsPositive(feedback)),
                !.weather_performance =
                    IF outfit.weather_data # None
                    THEN BumpPerformance(@, _get_temp_bucket(outfit.weather_data[1]),
                                         IsPositive(feedback))
                    ELSE @]
    IN  [counted EXCEPT !.compatibility_score = _compute_pair_compatibility(counted)]

\* the same without the final recomputation of the score
WoreInsteadPairScore_stale(pair) ==
    [pair EXCEPT
        !.times_paired = @ + 1,
        !.times_accepted = @ + 1,
        !.total_rating_sum = @ + 5,
        !.rating_count = @ + 1]

\* the body of the loop of _process_wore_instead for one pair
WoreInsteadPairScore(pair) ==
    LET counted ==
            [pair EXCEPT
                !.times_paired = @ + 1,
                !.times_accepted = @ + 1,
                !.total_rating_sum = @ + 5,
                !.rating_count = @ + 1]
    IN  [counted EXCEPT !.compatibility_score = _compute_pair_compatibility(counted)]

RECURSIVE UpdatePairs(_, _, _)
\* the loop of _update_item_pair_scores over the pairs of the outfit
UpdatePairs(rows, pairs, outfit) ==
    IF pairs = <<>> THEN rows
    ELSE LET ids == CanonicalPair(pairs[1][1], pairs[1][2])
             pair == GetOrCreatePairScore(rows, outfit.user_id, ids[1], ids[2])
         IN  UpdatePairs(PutPairScore(rows, outfit.user_id, ids[1], ids[2],
                                      UpdatedPairScore(pair, outfit)),
                         Tail(pairs), outfit)

_update_item_pair_scores(rows, outfit) ==
    IF outfit.feedback = None \/ Len(outfit.items) < 2 THEN rows
    ELSE UpdatePairs(rows, Combinations2(outfit.items), outfit)

RECURSIVE WoreInsteadPairs(_, _, _)
\* the loop of _process_wore_instead over the pairs of the items worn
WoreInsteadPairs(rows, pairs, user_id) ==
    IF pairs = <<>> THEN rows
    ELSE LET ids == CanonicalPair(pairs[1][1], pairs[1][2])
             pair == GetOrCreatePairScore(rows, user_id, ids[1], ids[2])
         IN  WoreInsteadPairs(PutPairScore(rows, user_id, ids[1], ids[2],
                                           WoreInsteadPairScore(pair)),
                              Tail(pairs), user_id)

\* the items select(ClothingItem).where(id.in_(ids)) can return: the items
\* of the list that exist, each once
ExistingItems(ids) == Range(ids) \cap Items

\* wore_items is the result of that query in the order `order`
_process_wore_instead(rows, outfit, order) ==
    IF outfit.feedback = None \/ outfit.feedback[1].wore_instead_items = <<>>
    THEN rows
    ELSE IF Len(outfit.feedback[1].wore_instead_items) < 2 THEN rows
    ELSE IF Len(order) < 2 THEN rows
    ELSE WoreInsteadPairs(rows, Combinations2(order), outfit.user_id)

-----------------------------------------------------------------------------
(* LearningService._update_outfit_performance: the scores of the upserted  *)
(* outfit_performances row, in ten-thousandths.                            *)

OutfitPerformanceRow(outfit) ==
    LET feedback == outfit.feedback[1]
        acceptance_score == IF feedback.accepted = None THEN None
                            ELSE Some(IF feedback.accepted[1] THEN 10000 ELSE 0)
        rating_score == IF feedback.rating = None THEN None
                        ELSE Some((feedback.rating[1] - 1) * 2500)
        wear_score == IF feedback.worn_at = None THEN None
                      ELSE Some(IF feedback.worn_with_modifications
                                THEN 7000 ELSE 10000)
        \* weights in tenths: ACCEPTANCE_WEIGHT, RATING_WEIGHT, WEAR_WEIGHT
        weighted == (IF acceptance_score # None THEN acceptance_score[1] * 4 ELSE 0)
                  + (IF rating_score # None THEN rating_score[1] * 4 ELSE 0)
                  + (IF wear_score # None THEN wear_score[1] * 2 ELSE 0)
        total_weight == (IF acceptance_score # None THEN 4 ELSE 0)
                      + (IF rating_score # None THEN 4 ELSE 0)
                      + (IF wear_score # None THEN 2 ELSE 0)
    IN  [performance_score |-> IF total_weight > 0
                               THEN RoundDiv(weighted, total_weight) ELSE 5000,
         acceptance_score |-> acceptance_score,
         rating_score |-> rating_score,
         wear_score |-> wear_score,
         was_modified |-> feedback.worn_with_modifications]

-----------------------------------------------------------------------------
(* LearningService.recompute_learning_profile.                             *)

MIN_FEEDBACK_FOR_LEARNING == 1

\* UserLearningProfile(user_id) with the column defaults
NewProfile ==
    [learned_color_scores |-> EmptyMap,
     learned_style_scores |-> EmptyMap,
     learned_occasion_patterns |-> EmptyMap,
     learned_weather_preferences |-> EmptyMap,
     overall_acceptance_rate |-> None,
     average_overall_rating |-> None,
     average_comfort_rating |-> None,
     average_style_rating |-> None,
     feedback_count |-> 0,
     outfits_rated |-> 0,
     last_computed_at |-> None]

\* the outfits the query of recompute_learning_profile returns, in the
\* order of their ids
RespondedOutfits(table) ==
    SortedSeq({o \in DOMAIN table : table[o].status \in {"accepted", "rejected"}})

\* the primary colors of the items of an outfit, in the order of the items
RECURSIVE ColorsOf(_)
ColorsOf(its) ==
    IF its = <<>> THEN <<>>
    ELSE (IF ItemColor(its[1]) # None THEN <<ItemColor(its[1])[1]>> ELSE <<>>)
         \o ColorsOf(Tail(its))

\* the style tags of the items of an outfit, in the order of the items
RECURSIVE StylesOf(_)
StylesOf(its) ==
    IF its = <<>> THEN <<>> ELSE ItemStyle(its[1]) \o StylesOf(Tail(its))

\* how many times x occurs in s
Count(s, x) == Cardinality({k \in DOMAIN s : s[k] = x})

\* the list of (signal, key) pairs the loop over the outfits appends:
\* one entry per outfit and occurrence of a color (or style tag) in its items
RECURSIVE Accumulate(_, _, _)
Accumulate(table, ids, feature) ==
    IF ids = <<>> THEN <<>>
    ELSE LET o == table[ids[1]]
             keys == IF feature = "color" THEN ColorsOf(o.items) ELSE StylesOf(o.items)
         IN  [k \in DOMAIN keys |-> [key |-> keys[k], signal |-> _get_outfit_signal(o)]]
             \o Accumulate(table, Tail(ids), feature)

\* key -> round(sum(signals) / len(signals), 3)
MeanSignals(entries) ==
    [key \in {entries[k].key : k \in DOMAIN entries} |->
        LET mine == {k \in DOMAIN entries : entries[k].key = key}
            signals == [k \in DOMAIN entries |->
                            IF k \in mine THEN entries[k].signal ELSE 0]
        IN  RoundDiv(SumSeq(signals), Cardinality(mine))]

\* s without the later occurrences of its elements
RECURSIVE FirstOccurrences(_)
FirstOccurrences(s) ==
    IF s = <<>> THEN <<>>
    ELSE LET front == FirstOccurrences(SubSeq(s, 1, Len(s) - 1))
         IN  IF s[Len(s)] \in Range(front) THEN front ELSE Append(front, s[Len(s)])

\* sorted(keys, key = tally, reverse = True): stable, largest tally first
RECURSIVE SortedByTally(_, _)
SortedByTally(keys, tally) ==
    IF keys = <<>> THEN <<>>
    ELSE LET best == CHOOSE k \in DOMAIN keys :
                        /\ \A j \in DOMAIN keys : tally[keys[k]] >= tally[keys[j]]
                        /\ \A j \in 1..(k - 1) : tally[keys[j]] < tally[keys[k]]
             rest == [j \in 1..(Len(keys) - 1) |->
                        IF j < best THEN keys[j] ELSE keys[j + 1]]
         IN  <<keys[best]>> \o SortedByTally(rest, tally)

\* learned_occasion_patterns
OccasionPatterns(table, ids) ==
    [occasion \in {table[ids[k]].occasion : k \in DOMAIN ids} |->
        LET mine == SelectSeq(ids, LAMBDA o : table[o].occasion = occasion)
            positive == SelectSeq(mine, LAMBDA o : _get_outfit_signal(table[o]) > 0)
            seen == Accumulate(table, mine, "color")
            liked == Accumulate(table, positive, "color")
            colors == FirstOccurrences([k \in DOMAIN seen |-> seen[k].key])
            tally == [c \in Range(colors) |->
                        Count([k \in DOMAIN liked |-> liked[k].key], c)]
            top_colors == SortedByTally(colors, tally)
        IN  [preferred_colors |-> SubSeq(top_colors, 1, Min(3, Len(top_colors))),
             success_rate |-> RoundDiv(100 * Len(positive), Len(mine))]]

\* learned_weather_preferences
WeatherPreferences(table, ids) ==
    LET with_temp == SelectSeq(ids, LAMBDA o : table[o].weather_data # None)
    IN  [bucket \in {_get_temp_bucket(table[with_temp[k]].weather_data[1]) :
                        k \in DOMAIN with_temp} |->
            LET mine == SelectSeq(with_temp, LAMBDA o :
                            _get_temp_bucket(table[o].weather_data[1]) = bucket)
                positive == SelectSeq(mine, LAMBDA o : _get_outfit_signal(table[o]) > 0)
                layers == [k \in DOMAIN mine |-> Len(table[mine[k]].items)]
            IN  [preferred_layers |-> RoundDiv(10 * SumSeq(layers), Len(layers)),
                 success_rate |-> RoundDiv(100 * Len(positive), Len(mine))]]

\* sum / count rounded to 2 places, None when the average is undefined or 0
AverageRating(table, ids, field) ==
    LET rated == SelectSeq(ids, LAMBDA o :
                    table[o].feedback # None /\ table[o].feedback[1][field] # None)
        total == SumSeq([k \in DOMAIN rated |-> table[rated[k]].feedback[1][field][1]])
    IN  IF Len(rated) > 0 /\ total # 0
        THEN Some(RoundDiv(100 * total, Len(rated))) ELSE None

\* the fields recompute_learning_profile assigns, computed from the outfits
ComputedProfile(table, ids) ==
    LET total_accepted == Len(SelectSeq(ids, LAMBDA o : table[o].status = "accepted"))
        total_responded == Len(ids)
        rating_count == Len(SelectSeq(ids, LAMBDA o :
                            table[o].feedback # None
                            /\ table[o].feedback[1].rating # None))
    IN  [learned_color_scores |-> MeanSignals(Accumulate(table, ids, "color")),
         learned_style_scores |-> MeanSignals(Accumulate(table, ids, "style")),
         learned_occasion_patterns |-> OccasionPatterns(table, ids),
         learned_weather_preferences |-> WeatherPreferences(table, ids),
         overall_acceptance_rate |->
            IF total_responded > 0 /\ total_accepted # 0
            THEN Some(RoundDiv(10000 * total_accepted, total_responded))
            ELSE None,
         average_overall_rating |-> AverageRating(table, ids, "rating"),
         average_comfort_rating |-> AverageRating(table, ids, "comfort_rating"),
         average_style_rating |-> AverageRating(table, ids, "style_rating"),
         feedback_count |-> Len(ids),
         outfits_rated |-> rating_count,
         last_computed_at |-> Some(now)]

\* the same, but the learned colors are merged into the stored ones
recompute_learning_profile_merge(table, stored) ==
    LET ids == RespondedOutfits(table)
        old == IF stored = None THEN EmptyMap ELSE stored[1].learned_color_scores
        new == ComputedProfile(table, ids)
    IN  IF Len(ids) < MIN_FEEDBACK_FOR_LEARNING THEN stored
        ELSE Some([new EXCEPT !.learned_color_scores =
                      [c \in (DOMAIN old) \cup (DOMAIN @) |->
                          IF c \in DOMAIN @ THEN @[c] ELSE old[c]]])

\* the same, but feedback_count is added to the stored count
recompute_learning_profile_add(table, stored) ==
    LET ids == RespondedOutfits(table)
        old == IF stored = None THEN 0 ELSE stored[1].feedback_count
    IN  IF Len(ids) < MIN_FEEDBACK_FOR_LEARNING THEN stored
        ELSE Some([ComputedProfile(table, ids) EXCEPT !.feedback_count = @ + old])

\* the stored profile after recompute_learning_profile; with no accepted or
\* rejected outfit the stored row is returned as it is
recompute_learning_profile(table, stored) ==
    LET ids == RespondedOutfits(table)
    IN  IF Len(ids) < MIN_FEEDBACK_FOR_LEARNING THEN stored
        ELSE Some(ComputedProfile(table, ids))

-----------------------------------------------------------------------------
(* The feedback endpoints of api/outfits.py and the recompute endpoint of  *)
(* api/learning.py, each request served from start to end.                 *)

NOutfits == 2
MaxCalls == 2

\* Outfit.occasion and Outfit.weather_data["temperature"] of the outfits
OutfitOccasion(o) == IF o % 2 = 1 THEN "casual" ELSE "work"

OutfitWeather(o) == IF o % 2 = 1 THEN Some(200) ELSE None

\* the items of an outfit in the order in which Outfit.items loads them
OutfitItemChoices(o) ==
    IF o % 2 = 1 THEN {<<1, 2>>, <<2, 1>>} ELSE {<<3, 1, 2>>, <<3>>}

\* UserFeedback(outfit_id) with the column defaults
NewFeedback ==
    [accepted |-> None, rating |-> None, comfort_rating |-> None,
     style_rating |-> None, worn_at |-> None,
     worn_with_modifications |-> FALSE, actually_worn |-> None,
     wore_instead_items |-> <<>>]

\* FeedbackRequest with no field given
NoRequest ==
    [accepted |-> None, rating |-> None, comfort_rating |-> None,
     style_rating |-> None, worn |-> None, worn_with_modifications |-> None,
     actually_worn |-> None, wore_instead_items |-> None]

\* the requests submitted in the model
FeedbackRequests ==
    {[NoRequest EXCEPT !.accepted = Some(FALSE), !.rating = Some(2)],
     [NoRequest EXCEPT !.accepted = Some(TRUE), !.rating = Some(5),
                       !.comfort_rating = Some(4), !.style_rating = Some(3)],
     [NoRequest EXCEPT !.rating = Some(2)],
     [NoRequest EXCEPT !.worn = Some(TRUE), !.worn_with_modifications = Some(TRUE)],
     [NoRequest EXCEPT !.accepted = Some(FALSE), !.actually_worn = Some(FALSE),
                       !.wore_instead_items = Some(<<2, 1>>)],
     [NoRequest EXCEPT !.wore_instead_items = Some(<<3, 3>>)]}

\* where the learning step of a submission can raise
FailPoints == {"none", "performance", "pairs", "wore_instead", "recompute"}

\* the same, but worn = true counts the wear whether or not worn_at is set
ApplyRequest_recount(outfit, req) ==
    LET fb0 == IF outfit.feedback # None THEN outfit.feedback[1] ELSE NewFeedback
        fb1 == [fb0 EXCEPT
                  !.accepted = IF req.accepted # None THEN req.accepted ELSE @,
                  !.rating = IF req.rating # None THEN req.rating ELSE @,
                  !.comfort_rating =
                      IF req.comfort_rating # None THEN req.comfort_rating ELSE @,
                  !.style_rating =
                      IF req.style_rating # None THEN req.style_rating ELSE @]
        status == IF req.accepted = None THEN outfit.status
                  ELSE IF req.accepted[1] THEN "accepted" ELSE "rejected"
        worn_now == req.worn = Some(TRUE)
        fb2 == [fb1 EXCEPT
                  !.worn_at = IF worn_now THEN Some(get_user_today(now)) ELSE @,
                  !.worn_with_modifications =
                      IF req.worn_with_modifications # None
                      THEN req.worn_with_modifications[1] ELSE @,
                  !.actually_worn =
                      IF req.actually_worn # None THEN req.actually_worn ELSE @,
                  !.wore_instead_items =
                      IF req.wore_instead_items # None
                      THEN req.wore_instead_items[1] ELSE @]
        instead_now == /\ req.wore_instead_items # None
                       /\ fb2.wore_instead_items # <<>>
                       /\ fb2.worn_at = None
        fb3 == [fb2 EXCEPT !.worn_at = IF instead_now THEN Some(get_user_today(now))
                                      ELSE @]
    IN  [outfit |-> [outfit EXCEPT
                       !.status = status,
                       !.responded_at = IF req.accepted # None THEN Some(now)
                                        ELSE @,
                       !.feedback = Some(fb3)],
         worn |-> IF worn_now THEN Range(outfit.items)
                  ELSE IF instead_now THEN ExistingItems(fb2.wore_instead_items)
                  ELSE {}]

\* "Create or update feedback" of submit_feedback: the outfit with its
\* feedback row after the request, and the items whose wear is counted
ApplyRequest(outfit, req) ==
    LET fb0 == IF outfit.feedback # None THEN outfit.feedback[1] ELSE NewFeedback
        fb1 == [fb0 EXCEPT
                  !.accepted = IF req.accepted # None THEN req.accepted ELSE @,
                  !.rating = IF req.rating # None THEN req.rating ELSE @,
                  !.comfort_rating =
                      IF req.comfort_rating # None THEN req.comfort_rating ELSE @,
                  !.style_rating =
                      IF req.style_rating # None THEN req.style_rating ELSE @]
        status == IF req.accepted = None THEN outfit.status
                  ELSE IF req.accepted[1] THEN "accepted" ELSE "rejected"
        worn_now == req.worn = Some(TRUE) /\ fb1.worn_at = None
        fb2 == [fb1 EXCEPT
                  !.worn_at = IF worn_now THEN Some(get_user_today(now)) ELSE @,
                  !.worn_with_modifications =
                      IF req.worn_with_modifications # None
                      THEN req.worn_with_modifications[1] ELSE @,
                  !.actually_worn =
                      IF req.actually_worn # None THEN req.actually_worn ELSE @,
                  !.wore_instead_items =
                      IF req.wore_instead_items # None
                      THEN req.wore_instead_items[1] ELSE @]
        instead_now == /\ req.wore_instead_items # None
                       /\ fb2.wore_instead_items # <<>>
                       /\ fb2.worn_at = None
        fb3 == [fb2 EXCEPT !.worn_at = IF instead_now THEN Some(get_user_today(now))
                                      ELSE @]
    IN  [outfit |-> [outfit EXCEPT
                       !.status = status,
                       !.responded_at = IF req.accepted # None THEN Some(now)
                                        ELSE @,
                       !.feedback = Some(fb3)],
         worn |-> IF worn_now THEN Range(outfit.items)
                  ELSE IF instead_now THEN ExistingItems(fb2.wore_instead_items)
                  ELSE {}]

\* POST /outfits/{outfit_id}/feedback for an outfit that does not exist
SubmitFeedbackNotFound(o) ==
    /\ calls < MaxCalls
    /\ o \notin DOMAIN outfits
    /\ calls' = calls + 1
    /\ last_call' = [op |-> "submit_feedback", outfit |-> o, request |-> NoRequest,
                     learning |-> "skipped", status_code |-> 404]
    /\ UNCHANGED <<auxVars, recVars, now, insights, race, sig, outfits, items, pair_scores, performances, profile>>

\* the same, but the commit comes after the learning step and is skipped
\* when that step raises
CommittedFeedback_late(before, after, fail) ==
    IF fail = "none" THEN after ELSE before

\* db.commit() of submit_feedback comes before the learning step is tried:
\* what the request wrote is stored whether or not that step raises
CommittedFeedback(before, after, fail) == after

\* the same, but an exception of the learning step reaches the caller
FeedbackStatusCode_raise(fail) == IF fail = "none" THEN 200 ELSE 500

\* except Exception: the failure is logged and the response is built
FeedbackStatusCode(fail) == 200

\* POST /outfits/{outfit_id}/feedback: the feedback write and its commit,
\* then LearningService.process_feedback inside try/except.  The learning
\* step raises at `fail`; what it wrote since its last commit is lost.
SubmitFeedback(o, req, fail) ==
    /\ calls < MaxCalls
    /\ o \in DOMAIN outfits
    /\ LET applied == ApplyRequest(outfits[o], req)
           outfit == applied.outfit
           table == [outfits EXCEPT ![o] = outfit]
           worn == [i \in Items |->
                       IF i \in applied.worn THEN WearItem(items[i], i)
                       ELSE items[i]]
       IN  /\ outfits' = CommittedFeedback(outfits, table, fail)
           /\ items' = CommittedFeedback(items, worn, fail)
           /\ \E order \in Perms(ExistingItems(outfit.feedback[1].wore_instead_items)) :
                LET performed == MapPut(performances, o, OutfitPerformanceRow(outfit))
                    paired == _update_item_pair_scores(pair_scores, outfit)
                    instead == _process_wore_instead(paired, outfit, order)
                    committed == fail \in {"none", "recompute"}
                IN  /\ performances' = IF committed THEN performed ELSE performances
                    /\ pair_scores' = IF committed THEN instead ELSE pair_scores
                    /\ profile' = IF fail = "none"
                                  THEN recompute_learning_profile(table, profile)
                                  ELSE profile
    /\ calls' = calls + 1
    /\ last_call' = [op |-> "submit_feedback", outfit |-> o, request |-> req,
                     learning |-> IF fail = "none" THEN "ok" ELSE "failed",
                     status_code |-> FeedbackStatusCode(fail)]
    /\ UNCHANGED <<auxVars, recVars, now, insights, race, sig>>

\* POST /outfits/{outfit_id}/accept
AcceptOutfit(o) ==
    /\ calls < MaxCalls
    /\ o \in DOMAIN outfits
    /\ calls' = calls + 1
    /\ outfits' = [outfits EXCEPT ![o].status = "accepted",
                                  ![o].responded_at = Some(now)]
    /\ last_call' = [op |-> "accept_outfit", outfit |-> o, request |-> NoRequest,
                     learning |-> "skipped", status_code |-> 200]
    /\ UNCHANGED <<auxVars, recVars, now, insights, race, sig, items, pair_scores, performances, profile>>

\* POST /outfits/{outfit_id}/reject
RejectOutfit(o) ==
    /\ calls < MaxCalls
    /\ o \in DOMAIN outfits
    /\ calls' = calls + 1
    /\ outfits' = [outfits EXCEPT ![o].status = "rejected",
                                  ![o].responded_at = Some(now)]
    /\ last_call' = [op |-> "reject_outfit", outfit |-> o, request |-> NoRequest,
                     learning |-> "skipped", status_code |-> 200]
    /\ UNCHANGED <<auxVars, recVars, now, insights, race, sig, items, pair_scores, performances, profile>>

\* DELETE /outfits/{outfit_id}: the outfit, and by cascade its items, its
\* feedback and its performance row
DeleteOutfit(o) ==
    /\ o \in DOMAIN outfits
    /\ outfits' = [x \in (DOMAIN outfits) \ {o} |-> outfits[x]]
    /\ performances' = [x \in (DOMAIN performances) \ {o} |-> performances[x]]
    /\ last_call' = [op |-> "delete_outfit", outfit |-> o, request |-> NoRequest,
                     learning |-> "skipped", status_code |-> 204]
    /\ UNCHANGED <<auxVars, recVars, now, insights, race, sig, items, pair_scores, profile, calls>>

\* POST /learning/recompute
RecomputeProfile ==
    /\ calls < MaxCalls
    /\ calls' = calls + 1
    /\ profile' = recompute_learning_profile(outfits, profile)
    /\ last_call' = [op |-> "recompute", outfit |-> 0, request |-> NoRequest,
                     learning |-> "ok", status_code |-> 200]
    /\ UNCHANGED <<auxVars, recVars, now, insights, race, sig, outfits, items, pair_scores, performances>>

\* the two requests of the concurrent runs
Procs == {1, 2}

\* a request that has not started: what its session has loaded and computed
NoProc ==
    [pc |-> "start", request |-> NoRequest,
     pair |-> None, computed |-> None, loaded |-> None, created |-> FALSE,
     learning |-> "skipped"]

\* no concurrent requests; order lists the profile commits as they happen
NoRace == [proc |-> [p \in Procs |-> NoProc], order |-> <<>>]

Init ==
    /\ sig = None
    /\ outfits \in {t \in [1..NOutfits ->
                              [user_id : {USER},
                               items : UNION {OutfitItemChoices(o) : o \in 1..NOutfits},
                               status : {"pending"},
                               occasion : {"casual", "work"},
                               weather_data : {None, Some(200)},
                               responded_at : {None},
                               feedback : {None}]] :
                      \A o \in 1..NOutfits :
                          /\ t[o].items \in OutfitItemChoices(o)
                          /\ t[o].occasion = OutfitOccasion(o)
                          /\ t[o].weather_data = OutfitWeather(o)}
    /\ items = [i \in Items |-> NewItem]
    /\ pair_scores = EmptyBag
    /\ performances = EmptyMap
    /\ profile = None
    /\ calls = 0
    /\ now = 0
    /\ insights = <<>>
    /\ race = NoRace
    /\ ai_call = NoAICall
    /\ notifications = <<>>
    /\ last_call = [op |-> "none", outfit |-> 0, request |-> NoRequest,
                    learning |-> "skipped", status_code |-> 0]
    /\ NoRecommendation

Next ==
    \/ \E o \in 1..NOutfits : SubmitFeedbackNotFound(o)
    \/ \E o \in 1..NOutfits, req \in FeedbackRequests, fail \in FailPoints :
          SubmitFeedback(o, req, fail)
    \/ \E o \in 1..NOutfits : AcceptOutfit(o)
    \/ \E o \in 1..NOutfits : RejectOutfit(o)
    \/ \E o \in 1..NOutfits : DeleteOutfit(o)
    \/ RecomputeProfile

Spec == Init /\ [][Next]_vars

-----------------------------------------------------------------------------
(* Outfit recommendation: RecommendationService.generate_recommendation.   *)

OTHER_USER == "u2"

\* rows of clothing_items as the candidate queries see them
ClosetRows ==
    {[user_id |-> USER, status |-> "ready", is_archived |-> FALSE],
     [user_id |-> USER, status |-> "processing", is_archived |-> FALSE],
     [user_id |-> USER, status |-> "archived", is_archived |-> TRUE],
     [user_id |-> OTHER_USER, status |-> "ready", is_archived |-> FALSE]}

\* the row of item i after n wears
RECURSIVE WornTimes(_, _)
WornTimes(i, n) ==
    IF n = 0 THEN NewItem ELSE WearItem(WornTimes(i, n - 1), i)

\* UserPreference rows: none, nothing excluded and repeats allowed, or an
\* excluded item and the default avoid_repeat_days
PreferenceChoices ==
    {None,
     Some([excluded_item_ids |-> <<>>, avoid_repeat_days |-> 0]),
     Some([excluded_item_ids |-> <<2>>, avoid_repeat_days |-> 7])}

HistoryChoices == {{}, {1}, {1, 3}}

\* the items in the order the table returns them
ItemOrder == [k \in 1..NItems |-> k]

\* the WHERE clause of both item queries of generate_recommendation
IsReadyItem(i) ==
    /\ closet[i].user_id = USER
    /\ closet[i].status = "ready"
    /\ ~closet[i].is_archived

_exclude_recently_worn(candidates, avoid_days) ==
    IF avoid_days <= 0 THEN candidates
    ELSE LET recently_worn == {i \in item_history : closet[i].user_id = USER}
         IN  SelectSeq(candidates, LAMBDA i : i \notin recently_worn)

get_candidate_items(exclude_items) ==
    LET ready == SelectSeq(ItemOrder, IsReadyItem)
        clean == SelectSeq(ready, LAMBDA i : ~items[i].needs_wash)
        kept == IF exclude_items # <<>>
                THEN SelectSeq(clean, LAMBDA i : i \notin Range(exclude_items))
                ELSE clean
        allowed == IF preferences # None /\ preferences[1].excluded_item_ids # <<>>
                   THEN SelectSeq(kept, LAMBDA i :
                            i \notin Range(preferences[1].excluded_item_ids))
                   ELSE kept
    IN  IF ready = <<>> THEN <<>>
        ELSE IF preferences # None /\ preferences[1].avoid_repeat_days # 0
        THEN _exclude_recently_worn(allowed, preferences[1].avoid_repeat_days)
        ELSE allowed

\* the same, but only items that no filter removed can be included
ForceInclude_filtered(candidates, include_items) == candidates

\* "Force-include specific items if requested"
ForceInclude(candidates, include_items) ==
    LET missing_ids == Range(include_items) \ Range(candidates)
        forced_items == SelectSeq(ItemOrder,
                            LAMBDA i : i \in missing_ids /\ IsReadyItem(i))
    IN  candidates \o forced_items

\* the floor raised to "no more than 2"
InsufficientWardrobe_atmost(candidates) == Len(candidates) <= 2

\* if len(candidates) < 2: raise InsufficientWardrobeError
InsufficientWardrobe(candidates) == Len(candidates) < 2

\* number_map of _format_items_for_prompt: numbers 1..N in candidate order
_format_items_for_prompt(candidates) ==
    [n \in 1..Len(candidates) |-> candidates[n]]

\* the entries of the "items" list of a parsed response: JSON integers,
\* strings of decimal digits, other strings, and numbers with a fraction
\* (val in tenths)
IntEntry(n) == [kind |-> "int", val |-> n]
StrEntry(n) == [kind |-> "str", val |-> n]
TextEntry == [kind |-> "text", val |-> 0]
FloatEntry(tenths) == [kind |-> "float", val |-> tenths]

\* int(num): None stands for the ValueError or TypeError that is caught;
\* int() of a float truncates toward zero
IntOf(num) ==
    IF num.kind \in {"int", "str"} THEN Some(num.val)
    ELSE IF num.kind = "float"
    THEN Some(IF num.val >= 0 THEN num.val \div 10 ELSE -((-num.val) \div 10))
    ELSE None

\* "Convert item numbers back to UUIDs"
RECURSIVE ValidIds(_, _)
ValidIds(selected_numbers, number_map) ==
    IF selected_numbers = <<>> THEN <<>>
    ELSE LET num_int == IntOf(Head(selected_numbers))
             rest == ValidIds(Tail(selected_numbers), number_map)
         IN  IF num_int # None /\ num_int[1] \in DOMAIN number_map
             THEN <<number_map[num_int[1]]>> \o rest
             ELSE rest

\* A model response, by the features the parser looks at: prose before the
\* JSON text (free of braces, brackets, fences and slashes), a fenced code
\* block around it, // comments inside it, and the JSON text itself: the
\* object {"items": numbers}, the bare array numbers, the array
\* [{"items": numbers}], or text that is no JSON at all
ResponseBodies == {"object", "array", "object_list", "text"}

Content(body, numbers) ==
    [prose |-> FALSE, fence |-> FALSE, comments |-> FALSE,
     body |-> body, numbers |-> numbers]

\* the value json.loads gives for the JSON text of the content
JsonOf(content) ==
    IF content.body = "object" THEN [type |-> "dict", items |-> content.numbers]
    ELSE IF content.body = "array" THEN [type |-> "numbers", items |-> content.numbers]
    ELSE [type |-> "dicts", items |-> content.numbers]

\* _parse_ai_response: the parsed value, or None for its ValueError
_parse_ai_response(content) ==
    IF content.body = "text" THEN None
    \* "Try direct JSON parse", "Try with comments stripped"
    ELSE IF ~content.prose /\ ~content.fence THEN Some(JsonOf(content))
    \* "Try extracting JSON from markdown code block"
    ELSE IF content.fence THEN Some(JsonOf(content))
    \* "Try finding JSON object with balanced braces": the first "{"
    ELSE IF content.body \in {"object", "object_list"}
    THEN Some([type |-> "dict", items |-> content.numbers])
    \* "Try finding JSON array with balanced brackets": no comment stripping
    ELSE IF content.comments THEN None
    ELSE IF content.numbers # <<>>
    THEN Some([type |-> "dict", items |-> content.numbers])
    ELSE Some(JsonOf(content))

\* "Handle case where AI returns a list instead of object" and
\* outfit_data.get("items", []): the selected numbers, or None for the
\* ValueError("Expected dict, ...")
SelectedNumbers(outfit_data) ==
    IF outfit_data.type = "dict" THEN Some(outfit_data.items)
    ELSE IF outfit_data.type = "dicts" THEN Some(outfit_data.items)
    ELSE None

\* parsing and list handling together, as the try block runs them
ParsedNumbers(content) ==
    LET parsed == _parse_ai_response(content)
    IN  IF parsed = None THEN None ELSE SelectedNumbers(parsed[1])

\* the "items" lists of the responses
NumberLists ==
    {<<IntEntry(1), IntEntry(2)>>,
     <<IntEntry(2), IntEntry(7)>>,
     <<IntEntry(7)>>,
     <<IntEntry(1), IntEntry(1)>>,
     <<StrEntry(2), TextEntry, IntEntry(1)>>,
     <<FloatEntry(25), TextEntry>>}

\* what the AI service gives back: None when no endpoint answers, else the
\* content of the answer
AIResponses ==
    {None} \cup {Some(Content("object", numbers)) : numbers \in NumberLists}
           \cup {Some(Content("array", <<IntEntry(1), IntEntry(2)>>)),
                 Some(Content("text", <<>>))}

ExcludeChoices == {<<>>, <<1>>}

IncludeChoices == {<<>>, <<1>>, <<3, 2>>}

WeatherFailures == {"no_location", "weather_service_error"}

NextOutfitId ==
    IF DOMAIN outfits = {} THEN 1
    ELSE 1 + CHOOSE m \in DOMAIN outfits : \A o \in DOMAIN outfits : o <= m

\* the Outfit row with its OutfitItem rows, as generate_recommendation adds it
NewOutfit(valid_ids) ==
    [user_id |-> USER, items |-> valid_ids, status |-> "pending",
     occasion |-> "casual", weather_data |-> Some(200),
     responded_at |-> None, feedback |-> None]

\* generate_recommendation without a weather override, for a user without a
\* location or with the weather service failing
GenerateRecommendationNoWeather(cause) ==
    /\ rec.result = "none"
    /\ rec' = [NoRec EXCEPT
                 !.result = "ValueError",
                 !.detail = IF cause = "no_location"
                            THEN "User location not set"
                            ELSE "Could not fetch weather data"]
    /\ UNCHANGED <<auxVars, sig, learnVars, closet, item_history, preferences, parse, now, insights, race>>

\* generate_recommendation once the weather is known
GenerateRecommendation(exclude_items, include_items, ai) ==
    /\ rec.result = "none"
    /\ LET filtered == get_candidate_items(exclude_items)
           candidates == IF include_items # <<>>
                         THEN ForceInclude(filtered, include_items)
                         ELSE filtered
           number_map == _format_items_for_prompt(candidates)
           selected_numbers == IF ai = None THEN None ELSE ParsedNumbers(ai[1])
           valid_ids == IF selected_numbers = None THEN <<>>
                        ELSE ValidIds(selected_numbers[1], number_map)
           request == [NoRec EXCEPT !.exclude_items = exclude_items,
                                    !.include_items = include_items,
                                    !.candidates = candidates]
           answered == [request EXCEPT !.ai_called = TRUE, !.content = ai,
                                       !.response = selected_numbers]
       IN  IF InsufficientWardrobe(candidates)
           THEN /\ rec' = [request EXCEPT
                             !.result = "InsufficientWardrobeError",
                             !.detail = "Not enough items in wardrobe"]
                /\ UNCHANGED outfits
           ELSE IF selected_numbers = None
           THEN \* except Exception around the AI call and the parsing
                /\ rec' = [answered EXCEPT
                             !.result = "AIRecommendationError",
                             !.detail = "AI service is not available"]
                /\ UNCHANGED outfits
           ELSE IF valid_ids = <<>>
           THEN /\ rec' = [answered EXCEPT
                             !.result = "AIRecommendationError",
                             !.detail = "AI did not select any valid items"]
                /\ UNCHANGED outfits
           ELSE IF ~IsInjective(valid_ids)
           THEN \* two OutfitItem rows with one primary key: the commit fails
                /\ rec' = [answered EXCEPT !.result = "IntegrityError"]
                /\ UNCHANGED outfits
           ELSE /\ rec' = [answered EXCEPT !.result = "outfit"]
                /\ outfits' = MapPut(outfits, NextOutfitId, NewOutfit(valid_ids))
    /\ UNCHANGED <<auxVars, sig, items, pair_scores, performances, profile, calls,
                   last_call, closet, item_history, preferences, parse, now, insights, race>>

\* the except clauses of suggest_outfit: the status code of the HTTPException
\* raised for an error of generate_recommendation, its detail being str(e)
suggest_outfit_status(result) ==
    IF result = "InsufficientWardrobeError" THEN 400
    ELSE IF result = "AIRecommendationError" THEN 503
    ELSE IF result = "ValueError" THEN 400
    ELSE IF result = "outfit" THEN 200
    ELSE 500

InitRec ==
    /\ now = 0
    /\ sig = None
    /\ outfits = EmptyMap
    /\ items \in {t \in [Items -> {NewItem} \cup
                            {WornTimes(i, DEFAULT_WASH_INTERVALS(ItemType(i))) :
                                i \in Items}] :
                     \A i \in Items :
                         t[i] \in {NewItem,
                                   WornTimes(i, DEFAULT_WASH_INTERVALS(ItemType(i)))}}
    /\ pair_scores = EmptyBag
    /\ performances = EmptyMap
    /\ profile = None
    /\ calls = 0
    /\ insights = <<>>
    /\ race = NoRace
    /\ ai_call = NoAICall
    /\ notifications = <<>>
    /\ last_call = [op |-> "none", outfit |-> 0, request |-> NoRequest,
                    learning |-> "skipped", status_code |-> 0]
    /\ closet \in [Items -> ClosetRows]
    /\ item_history \in HistoryChoices
    /\ preferences \in PreferenceChoices
    /\ rec = NoRec
    /\ parse = NoParse

NextRec ==
    \/ \E cause \in WeatherFailures : GenerateRecommendationNoWeather(cause)
    \/ \E exclude_items \in ExcludeChoices, include_items \in IncludeChoices,
          ai \in AIResponses :
          GenerateRecommendation(exclude_items, include_items, ai)

SpecRec == InitRec /\ [][NextRec]_vars

-----------------------------------------------------------------------------
(* The response parser on its own: every shape with every items list.      *)

Contents ==
    [prose : BOOLEAN, fence : BOOLEAN, comments : BOOLEAN,
     body : ResponseBodies, numbers : NumberLists \cup {<<>>}]

InitParse ==
    /\ sig = None
    /\ outfits = EmptyMap
    /\ items = <<>>
    /\ pair_scores = EmptyBag
    /\ performances = EmptyMap
    /\ profile = None
    /\ calls = 0
    /\ now = 0
    /\ insights = <<>>
    /\ race = NoRace
    /\ ai_call = NoAICall
    /\ notifications = <<>>
    /\ last_call = [op |-> "none", outfit |-> 0, request |-> NoRequest,
                    learning |-> "skipped", status_code |-> 0]
    /\ closet = <<>>
    /\ item_history = {}
    /\ preferences = None
    /\ rec = NoRec
    /\ parse \in [content : {Some(c) : c \in Contents}, result : {"none"},
                  selected : {None}]

\* lines 642-647 and 658 of generate_recommendation on one response
ParseResponse ==
    /\ parse.result = "none"
    /\ LET selected_numbers == ParsedNumbers(parse.content[1])
       IN  parse' = [parse EXCEPT
                       !.result = IF selected_numbers = None THEN "error"
                                  ELSE "parsed",
                       !.selected = selected_numbers]
    /\ UNCHANGED <<auxVars, sig, learnVars, closet, item_history, preferences, rec, now, insights, race>>

NextParse == ParseResponse

SpecParse == InitParse /\ [][NextParse]_vars

-----------------------------------------------------------------------------
(* Wear events and the candidates of the next recommendation.              *)

\* LogWearRequest.worn_at, resolved: the user's today or a date before the
\* avoid-repeat window
WearDates == {"today", "long_ago"}

\* the feedback requests that mark an outfit or its substitutes worn
WearRequests ==
    {req \in FeedbackRequests :
        req.worn = Some(TRUE) \/ req.wore_instead_items # None}

\* ItemService.log_wear: the stats of the item after the wear
LoggedWear(row, i, worn_at) ==
    [WearItem(row, i) EXCEPT !.last_worn_at = Some(worn_at)]

\* POST /items/{item_id}/wear: an item_history row and the item's stats
LogItemWear(i, worn_at) ==
    /\ calls < MaxCalls
    /\ closet[i].user_id = USER
    /\ calls' = calls + 1
    /\ item_history' = IF worn_at = "today" THEN item_history \cup {i}
                       ELSE item_history
    /\ items' = [items EXCEPT ![i] = LoggedWear(items[i], i, worn_at)]
    /\ last_call' = [op |-> "log_item_wear", outfit |-> 0, request |-> NoRequest,
                     learning |-> "skipped", status_code |-> 200]
    /\ UNCHANGED <<auxVars, sig, outfits, pair_scores, performances, profile,
                   closet, preferences, rec, parse, now, insights, race>>

\* get_candidate_items as generate_recommendation calls it
GetCandidateItems(exclude_items) ==
    /\ rec' = [NoRec EXCEPT !.result = "candidates",
                            !.exclude_items = exclude_items,
                            !.candidates = get_candidate_items(exclude_items)]
    /\ last_call' = [op |-> "get_candidate_items", outfit |-> 0,
                     request |-> NoRequest, learning |-> "skipped",
                     status_code |-> 200]
    /\ UNCHANGED <<auxVars, sig, outfits, items, pair_scores, performances, profile,
                   calls, closet, item_history, preferences, parse, now, insights, race>>

InitWear ==
    /\ sig = None
    /\ outfits = [o \in 1..NOutfits |->
                     [user_id |-> USER,
                      items |-> CHOOSE its \in OutfitItemChoices(o) : TRUE,
                      status |-> "pending", occasion |-> OutfitOccasion(o),
                      weather_data |-> OutfitWeather(o),
                      responded_at |-> None, feedback |-> None]]
    /\ items = [i \in Items |-> NewItem]
    /\ pair_scores = EmptyBag
    /\ performances = EmptyMap
    /\ profile = None
    /\ calls = 0
    /\ now = 0
    /\ insights = <<>>
    /\ race = NoRace
    /\ ai_call = NoAICall
    /\ notifications = <<>>
    /\ last_call = [op |-> "none", outfit |-> 0, request |-> NoRequest,
                    learning |-> "skipped", status_code |-> 0]
    /\ closet = [i \in Items |->
                    [user_id |-> USER, status |-> "ready", is_archived |-> FALSE]]
    /\ item_history = {}
    /\ preferences \in PreferenceChoices
    /\ rec = NoRec
    /\ parse = NoParse

NextWear ==
    \/ \E o \in 1..NOutfits, req \in WearRequests : SubmitFeedback(o, req, "none")
    \/ \E i \in Items, worn_at \in WearDates : LogItemWear(i, worn_at)
    \/ \E exclude_items \in ExcludeChoices : GetCandidateItems(exclude_items)

SpecWear == InitWear /\ [][NextWear]_vars

-----------------------------------------------------------------------------
(* The hourly job update_learning_profiles of workers/notifications.py and *)
(* LearningService.generate_insights, which it calls.                      *)

MaxTime == 5

Abs(x) == IF x < 0 THEN -x ELSE x

\* timedelta(days=30), in half hours
InsightLifetime == 1440

\* the keys of the learned maps in the order a JSONB column returns them:
\* shorter keys first, keys of equal length in byte order
JsonbKeys == <<"red", "blue", "casual", "sporty">>

KeysOf(map) == SelectSeq(JsonbKeys, LAMBDA k : k \in DOMAIN map)

\* StyleInsight(...) with the column defaults; confidence in thousandths
NewInsight(category, insight_type, subject, confidence, t) ==
    [user_id |-> USER,
     category |-> category, insight_type |-> insight_type, subject |-> subject,
     confidence |-> confidence, is_acknowledged |-> FALSE,
     acknowledged_at |-> None, expires_at |-> t + InsightLifetime,
     created_at |-> t]

\* the rows generate_insights adds for the stored profile at time t
generate_insights(stored, t) ==
    IF stored = None THEN <<>>
    ELSE LET p == stored[1]
             top_colors == SortedByTally(KeysOf(p.learned_color_scores),
                                         p.learned_color_scores)
             avoided == SelectSeq(KeysOf(p.learned_color_scores),
                                  LAMBDA c : p.learned_color_scores[c] < -300)
             all_styles == SortedByTally(KeysOf(p.learned_style_scores),
                                         p.learned_style_scores)
             top_styles == SubSeq(all_styles, 1, Min(2, Len(all_styles)))
         IN  IF p.last_computed_at = None
                \/ p.feedback_count < MIN_FEEDBACK_FOR_LEARNING
             THEN <<>>
             ELSE (IF top_colors # <<>> /\ p.learned_color_scores[top_colors[1]] > 300
                   THEN <<NewInsight("color", "positive", <<top_colors[1]>>,
                             Min(950, Abs(p.learned_color_scores[top_colors[1]])), t)>>
                   ELSE <<>>)
                  \o (IF avoided # <<>>
                      THEN <<NewInsight("color", "negative", avoided, 700, t)>>
                      ELSE <<>>)
                  \o (IF p.overall_acceptance_rate = None THEN <<>>
                      ELSE IF p.overall_acceptance_rate[1] > 8000
                      THEN <<NewInsight("overall", "positive", <<>>, 900, t)>>
                      ELSE IF p.overall_acceptance_rate[1] < 4000
                      THEN <<NewInsight("overall", "suggestion", <<>>, 800, t)>>
                      ELSE <<>>)
                  \o (IF top_styles # <<>> /\ p.learned_style_scores[top_styles[1]] > 200
                      THEN <<NewInsight("style", "pattern", top_styles,
                                Min(900, Abs(p.learned_style_scores[top_styles[1]])), t)>>
                      ELSE <<>>)

\* the outfits the first query of the job finds: accepted or rejected, with
\* a response in the last hour
RecentlyResponded(table, one_hour_ago) ==
    {o \in DOMAIN table :
        /\ table[o].status \in {"accepted", "rejected"}
        /\ table[o].responded_at # None
        /\ table[o].responded_at[1] >= one_hour_ago}

\* needs_update
needs_update(stored, one_hour_ago) ==
    \/ stored = None
    \/ stored[1].last_computed_at = None
    \/ stored[1].last_computed_at[1] < one_hour_ago

\* one run of the job, which cron starts at minute 30 of every hour
update_learning_profiles ==
    /\ now % 2 = 1
    /\ LET one_hour_ago == now - 2
           users_with_recent_feedback ==
               {outfits[o].user_id : o \in RecentlyResponded(outfits, one_hour_ago)}
           updated == /\ USER \in users_with_recent_feedback
                      /\ needs_update(profile, one_hour_ago)
           recomputed == recompute_learning_profile(outfits, profile)
       IN  /\ profile' = IF updated THEN recomputed ELSE profile
           /\ insights' = IF updated
                          THEN insights \o generate_insights(recomputed, now)
                          ELSE insights
           /\ last_call' = [op |-> "update_learning_profiles", outfit |-> 0,
                            request |-> NoRequest,
                            learning |-> IF updated THEN "ok" ELSE "skipped",
                            status_code |-> 0]
    /\ UNCHANGED <<auxVars, recVars, now, race, sig, outfits, items, pair_scores,
                   performances, calls>>

\* half an hour passes
Tick ==
    /\ now < MaxTime
    /\ now' = now + 1
    /\ UNCHANGED <<auxVars, sig, learnVars, recVars, insights, race>>

InitSweep ==
    /\ sig = None
    /\ outfits = [o \in 1..NOutfits |->
                     [user_id |-> USER,
                      items |-> CHOOSE its \in OutfitItemChoices(o) : TRUE,
                      status |-> "pending", occasion |-> OutfitOccasion(o),
                      weather_data |-> OutfitWeather(o),
                      responded_at |-> None, feedback |-> None]]
    /\ items = [i \in Items |-> NewItem]
    /\ pair_scores = EmptyBag
    /\ performances = EmptyMap
    /\ profile = None
    /\ calls = 0
    /\ now = 0
    /\ insights = <<>>
    /\ race = NoRace
    /\ ai_call = NoAICall
    /\ notifications = <<>>
    /\ last_call = [op |-> "none", outfit |-> 0, request |-> NoRequest,
                    learning |-> "skipped", status_code |-> 0]
    /\ NoRecommendation

NextSweep ==
    \/ \E o \in 1..NOutfits, req \in FeedbackRequests : SubmitFeedback(o, req, "none")
    \/ \E o \in 1..NOutfits : AcceptOutfit(o)
    \/ \E o \in 1..NOutfits : RejectOutfit(o)
    \/ Tick
    \/ update_learning_profiles

SpecSweep == InitSweep /\ [][NextSweep]_vars

-----------------------------------------------------------------------------
(* Two feedback requests of one user served concurrently, each in its own  *)
(* session: request p is for outfit p.  A step is one statement or commit  *)
(* of submit_feedback, process_feedback and recompute_learning_profile;    *)
(* every statement reads what is committed when it runs.                   *)

MaxPrefix == 1

\* the requests submitted concurrently
RaceRequests ==
    {[NoRequest EXCEPT !.accepted = Some(FALSE), !.rating = Some(2)],
     [NoRequest EXCEPT !.accepted = Some(TRUE), !.rating = Some(5),
                       !.comfort_rating = Some(4), !.style_rating = Some(3)],
     [NoRequest EXCEPT !.rating = Some(2)]}

\* the same, but the counters are increased in the database
FlushedRow_increment(stored, loaded, assigned) ==
    [c \in DOMAIN stored |->
        IF c \in {"times_paired", "times_accepted", "times_rejected",
                  "total_rating_sum", "rating_count"}
        THEN stored[c] + (assigned[c] - loaded[c])
        ELSE IF assigned[c] # loaded[c] THEN assigned[c] ELSE stored[c]]

\* db.commit() after attribute assignments: the UPDATE the session flushes
\* sets the columns whose assigned value differs from the value the session
\* loaded, each to the assigned value; the other columns keep what is stored
FlushedRow(stored, loaded, assigned) ==
    [c \in DOMAIN stored |->
        IF assigned[c] # loaded[c] THEN assigned[c] ELSE stored[c]]

\* the pair of the items of an outfit of two items
PairOf(outfit) == CanonicalPair(outfit.items[1], outfit.items[2])

\* the first transaction of submit_feedback: the feedback row is written
\* and committed
RaceSubmit(p, req) ==
    /\ race.proc[p].pc = "start"
    /\ p \in DOMAIN outfits
    /\ LET applied == ApplyRequest(outfits[p], req)
       IN  /\ outfits' = [outfits EXCEPT ![p] = applied.outfit]
           /\ items' = [i \in Items |->
                          IF i \in applied.worn THEN WearItem(items[i], i)
                          ELSE items[i]]
    /\ calls' = calls + 1
    /\ race' = [race EXCEPT !.proc[p].pc = "process", !.proc[p].request = req]
    /\ UNCHANGED <<auxVars, recVars, now, insights, sig, pair_scores, performances,
                   profile, last_call>>

\* process_feedback up to its commit: the pair row is selected, or created
\* in the session when there is none
RaceReadPairs(p) ==
    /\ race.proc[p].pc = "process"
    /\ LET ids == PairOf(outfits[p])
           found == FindPairScores(pair_scores, USER, ids[1], ids[2])
       IN  race' = [race EXCEPT
                      !.proc[p].pc = "pairs",
                      !.proc[p].pair = IF found = {} THEN None
                                       ELSE Some(CHOOSE r \in found : TRUE)]
    /\ UNCHANGED <<auxVars, recVars, now, insights, sig, outfits, items, pair_scores,
                   performances, profile, calls, last_call>>

\* db.commit() of process_feedback: the performance row and the pair row
\* are written; the INSERT of a pair row that was created meanwhile
\* violates uq_user_item_pair and the learning step ends with the exception
RaceCommitPairs(p) ==
    /\ race.proc[p].pc = "pairs"
    /\ LET ids == PairOf(outfits[p])
           found == FindPairScores(pair_scores, USER, ids[1], ids[2])
           loaded == race.proc[p].pair
           conflict == loaded = None /\ found # {}
           row == IF loaded = None
                  THEN UpdatedPairScore(NewPairScore(USER, ids[1], ids[2]), outfits[p])
                  ELSE FlushedRow(CHOOSE r \in found : TRUE, loaded[1],
                                  UpdatedPairScore(loaded[1], outfits[p]))
       IN  /\ pair_scores' = IF conflict THEN pair_scores
                             ELSE PutPairScore(pair_scores, USER, ids[1], ids[2], row)
           /\ performances' = IF conflict THEN performances
                              ELSE MapPut(performances, p, OutfitPerformanceRow(outfits[p]))
           /\ race' = [race EXCEPT
                          !.proc[p].pc = IF conflict THEN "done" ELSE "recompute",
                          !.proc[p].learning = IF conflict THEN "failed" ELSE @]
           /\ last_call' = IF conflict
                           THEN [op |-> "submit_feedback", outfit |-> p,
                                 request |-> race.proc[p].request,
                                 learning |-> "failed", status_code |-> 200]
                           ELSE last_call
    /\ UNCHANGED <<auxVars, recVars, now, insights, sig, outfits, items, profile, calls>>

\* recompute_learning_profile: the accepted and rejected outfits are
\* selected and the fields of the profile computed from them
RaceReadOutfits(p) ==
    /\ race.proc[p].pc = "recompute"
    /\ LET ids == RespondedOutfits(outfits)
           enough == Len(ids) >= MIN_FEEDBACK_FOR_LEARNING
       IN  /\ race' = [race EXCEPT
                          !.proc[p].pc = IF enough THEN "profile" ELSE "done",
                          !.proc[p].computed =
                              IF enough THEN Some(ComputedProfile(outfits, ids)) ELSE None,
                          !.proc[p].learning = IF enough THEN @ ELSE "ok"]
           /\ last_call' = IF enough THEN last_call
                           ELSE [op |-> "submit_feedback", outfit |-> p,
                                 request |-> race.proc[p].request,
                                 learning |-> "ok", status_code |-> 200]
    /\ UNCHANGED <<auxVars, recVars, now, insights, sig, outfits, items, pair_scores,
                   performances, profile, calls>>

\* a request holds the uncommitted INSERT of the profile row
HoldsInsert(q) == race.proc[q].pc = "commit" /\ race.proc[q].created

\* _get_or_create_profile: the row is selected; when there is none a new row
\* is added and flushed, and that INSERT waits while another session holds
\* an uncommitted INSERT of the same primary key
RaceReadProfile(p) ==
    /\ race.proc[p].pc = "profile"
    /\ race' = IF profile # None
               THEN [race EXCEPT !.proc[p].pc = "commit",
                                 !.proc[p].loaded = profile]
               ELSE IF \E q \in Procs \ {p} : HoldsInsert(q)
               THEN [race EXCEPT !.proc[p].pc = "blocked"]
               ELSE [race EXCEPT !.proc[p].pc = "commit",
                                 !.proc[p].loaded = Some(NewProfile),
                                 !.proc[p].created = TRUE]
    /\ UNCHANGED <<auxVars, recVars, now, insights, sig, outfits, items, pair_scores,
                   performances, profile, calls, last_call>>

\* the INSERT that waited fails on the primary key once the other session
\* has committed its row; the learning step ends with the exception
RaceInsertFails(p) ==
    /\ race.proc[p].pc = "blocked"
    /\ profile # None
    /\ race' = [race EXCEPT !.proc[p].pc = "done", !.proc[p].learning = "failed"]
    /\ last_call' = [op |-> "submit_feedback", outfit |-> p,
                     request |-> race.proc[p].request,
                     learning |-> "failed", status_code |-> 200]
    /\ UNCHANGED <<auxVars, recVars, now, insights, sig, outfits, items, pair_scores,
                   performances, profile, calls>>

\* the assignments of recompute_learning_profile and its db.commit()
RaceCommitProfile(p) ==
    /\ race.proc[p].pc = "commit"
    /\ LET stored == IF race.proc[p].created THEN NewProfile ELSE profile[1]
       IN  profile' = Some(FlushedRow(stored, race.proc[p].loaded[1],
                                      race.proc[p].computed[1]))
    /\ race' = [race EXCEPT !.proc[p].pc = "done", !.proc[p].learning = "ok",
                            !.order = Append(@, p)]
    /\ last_call' = [op |-> "submit_feedback", outfit |-> p,
                     request |-> race.proc[p].request,
                     learning |-> "ok", status_code |-> 200]
    /\ UNCHANGED <<auxVars, recVars, now, insights, sig, outfits, items, pair_scores,
                   performances, calls>>

\* a request served alone, before the two concurrent ones start
RacePrefix(o, req) ==
    /\ calls < MaxPrefix
    /\ \A p \in Procs : race.proc[p].pc = "start"
    /\ SubmitFeedback(o, req, "none")

InitRace ==
    /\ sig = None
    /\ outfits = [o \in 1..NOutfits |->
                     [user_id |-> USER,
                      items |-> IF o % 2 = 1 THEN <<1, 2>> ELSE <<2, 1>>,
                      status |-> "pending", occasion |-> OutfitOccasion(o),
                      weather_data |-> OutfitWeather(o),
                      responded_at |-> None, feedback |-> None]]
    /\ items = [i \in Items |-> NewItem]
    /\ pair_scores = EmptyBag
    /\ performances = EmptyMap
    /\ profile = None
    /\ calls = 0
    /\ now = 0
    /\ insights = <<>>
    /\ race = NoRace
    /\ ai_call = NoAICall
    /\ notifications = <<>>
    /\ last_call = [op |-> "none", outfit |-> 0, request |-> NoRequest,
                    learning |-> "skipped", status_code |-> 0]
    /\ NoRecommendation

NextRace ==
    \/ \E o \in 1..NOutfits, req \in RaceRequests : RacePrefix(o, req)
    \/ \E p \in Procs, req \in RaceRequests : RaceSubmit(p, req)
    \/ \E p \in Procs : RaceReadPairs(p)
    \/ \E p \in Procs : RaceCommitPairs(p)
    \/ \E p \in Procs : RaceReadOutfits(p)
    \/ \E p \in Procs : RaceReadProfile(p)
    \/ \E p \in Procs : RaceInsertFails(p)
    \/ \E p \in Procs : RaceCommitProfile(p)

SpecRace == InitRace /\ [][NextRace]_vars

-----------------------------------------------------------------------------
(* The insight endpoints of api/learning.py: POST /learning/generate-insights *)
(* and POST /learning/insights/{insight_id}/acknowledge.  The id of an     *)
(* insight is its position in the table.                                   *)

MaxInsights == 3

MaxAckTime == 1

\* the same, but the rows of the user are replaced by the new ones
StoredInsights_replace(stored, added) == added

\* self.db.add(insight) for each new row, then commit
StoredInsights(stored, added) == stored \o added

\* POST /learning/generate-insights
GenerateInsights ==
    /\ Len(insights) + Len(generate_insights(profile, now)) <= MaxInsights
    /\ insights' = StoredInsights(insights, generate_insights(profile, now))
    /\ last_call' = [op |-> "generate_insights", outfit |-> 0, request |-> NoRequest,
                     learning |-> "skipped", status_code |-> 200]
    /\ UNCHANGED <<auxVars, recVars, now, race, sig, outfits, items, pair_scores,
                   performances, profile, calls>>

\* LearningService.acknowledge_insight: the row with this id and this owner
acknowledge_insight(table, user_id, insight_id, t) ==
    IF insight_id \in DOMAIN table /\ table[insight_id].user_id = user_id
    THEN [table EXCEPT ![insight_id].is_acknowledged = TRUE,
                       ![insight_id].acknowledged_at = Some(t)]
    ELSE table

\* POST /learning/insights/{insight_id}/acknowledge by user_id
AcknowledgeInsight(user_id, insight_id) ==
    /\ insights' = acknowledge_insight(insights, user_id, insight_id, now)
    /\ last_call' = [op |-> "acknowledge_insight", outfit |-> insight_id,
                     request |-> NoRequest, learning |-> "skipped",
                     status_code |-> IF insight_id \in DOMAIN insights
                                        /\ insights[insight_id].user_id = user_id
                                     THEN 200 ELSE 404]
    /\ UNCHANGED <<auxVars, recVars, now, race, sig, outfits, items, pair_scores,
                   performances, profile, calls>>

\* the feedback submitted before insights are generated
InsightRequests ==
    {[NoRequest EXCEPT !.accepted = Some(FALSE), !.rating = Some(1)],
     [NoRequest EXCEPT !.accepted = Some(TRUE), !.rating = Some(5),
                       !.comfort_rating = Some(4), !.style_rating = Some(3)]}

\* half an hour passes, up to MaxAckTime
InsightTick == now < MaxAckTime /\ Tick

InitInsight == InitSweep

NextInsight ==
    \/ \E o \in 1..NOutfits, req \in InsightRequests : SubmitFeedback(o, req, "none")
    \/ RecomputeProfile
    \/ GenerateInsights
    \/ \E user_id \in {USER, OTHER_USER}, insight_id \in 1..(MaxInsights + 1) :
          AcknowledgeInsight(user_id, insight_id)
    \/ InsightTick

SpecInsight == InitInsight /\ [][NextInsight]_vars

-----------------------------------------------------------------------------
(* Feedback that rejects the recommended outfit, with or without a rating, *)
(* and names the two items worn instead.                                   *)

InsteadRequests ==
    {[NoRequest EXCEPT !.accepted = Some(FALSE), !.rating = rating,
                       !.actually_worn = Some(FALSE),
                       !.wore_instead_items = Some(<<2, 1>>)] :
        rating \in OptRating}

NextInstead ==
    \E o \in 1..NOutfits, req \in InsteadRequests : SubmitFeedback(o, req, "none")

SpecInstead == Init /\ [][NextInstead]_vars

-----------------------------------------------------------------------------
(* Feedback that reports wear, submitted today and tomorrow.               *)

WornRequests ==
    {[NoRequest EXCEPT !.worn = Some(TRUE)],
     [NoRequest EXCEPT !.worn = Some(TRUE), !.worn_with_modifications = Some(TRUE),
                       !.rating = Some(4)],
     [NoRequest EXCEPT !.accepted = Some(FALSE), !.actually_worn = Some(FALSE),
                       !.wore_instead_items = Some(<<2, 3>>)],
     [NoRequest EXCEPT !.wore_instead_items = Some(<<1>>)],
     [NoRequest EXCEPT !.rating = Some(3)]}

\* midnight passes in the user's time zone
NextDay ==
    /\ now < HalfHoursPerDay
    /\ now' = now + HalfHoursPerDay
    /\ UNCHANGED <<auxVars, learnVars, recVars, sig, insights, race>>

NextWorn ==
    \/ \E o \in 1..NOutfits, req \in WornRequests : SubmitFeedback(o, req, "none")
    \/ NextDay

SpecWorn == Init /\ [][NextWorn]_vars

-----------------------------------------------------------------------------
(* AIService: the endpoint list built by __init__ and one call of          *)
(* generate_text, one POST per step.  ai_call.result is "running" inside   *)
(* the loops, "returned" after the return, else the class of the exception *)
(* that left the method.                                                   *)

MaxUserEndpoints == 2

ai_max_retries == 3

\* the contents a model can answer with
Texts == {"text1", "text2"}

\* preferences.ai_endpoints: up to MaxUserEndpoints entries, enabled or not
UserEndpointLists ==
    UNION {[1..n -> [name : {"user"}, enabled : BOOLEAN]] : n \in 0..MaxUserEndpoints}

\* the entry at position k of the list, with a name that tells it apart
EndpointName(k) == <<"user", k>>

\* AIService.__init__: the enabled entries in their order, then "default"
AIService_init(endpoints) ==
    [j \in 1..Cardinality({k \in DOMAIN endpoints : endpoints[k].enabled}) |->
        EndpointName(CHOOSE k \in DOMAIN endpoints :
            /\ endpoints[k].enabled
            /\ Cardinality({i \in 1..k : endpoints[i].enabled}) = j)]
    \o <<"default">>

\* what one POST to /chat/completions can come to: a 2xx answer whose body
\* holds choices[0].message.content, a 2xx answer whose body does not
\* (no JSON, no "choices", an empty list), a 4xx/5xx answer, no answer
Responses ==
    {[status |-> "ok", content |-> Some(c)] : c \in Texts}
    \cup {[status |-> st, content |-> None] :
             st \in {"malformed", "http_error", "request_error"}}

\* the endpoint the loops are at after the attempts made so far
CurrentEndpoint(call) == Len(call.attempts) \div ai_max_retries + 1

\* the body of the inner loop of generate_text for one response, and the
\* raise after the loops when that was the last attempt of the last endpoint
AfterAttempt(call, response) ==
    LET made == [call EXCEPT !.attempts =
                    Append(@, [endpoint |-> call.endpoints[CurrentEndpoint(call)],
                               response |-> response])]
    IN  CASE response.status = "ok" ->
               [made EXCEPT !.result = "returned", !.content = response.content]
          [] response.status = "malformed" ->
               \* response.json() or data["choices"][0]["message"]["content"]
               \* raises; neither except clause catches it
               [made EXCEPT !.result = "KeyError"]
          [] OTHER ->
               IF Len(made.attempts) < Len(call.endpoints) * ai_max_retries
               THEN made
               ELSE [made EXCEPT !.result =
                        IF response.status = "http_error" THEN "HTTPStatusError"
                        ELSE "RequestError"]

InitAI ==
    /\ ai_call \in {[user_endpoints |-> eps, endpoints |-> AIService_init(eps),
                     attempts |-> <<>>, result |-> "running", content |-> None] :
                       eps \in UserEndpointLists}
    /\ sig = None
    /\ outfits = EmptyMap
    /\ items = [i \in Items |-> NewItem]
    /\ pair_scores = EmptyBag
    /\ performances = EmptyMap
    /\ profile = None
    /\ calls = 0
    /\ now = 0
    /\ insights = <<>>
    /\ race = NoRace
    /\ notifications = <<>>
    /\ last_call = [op |-> "none", outfit |-> 0, request |-> NoRequest,
                    learning |-> "skipped", status_code |-> 0]
    /\ NoRecommendation

\* one pass of the inner loop of generate_text
Attempt(response) ==
    /\ ai_call.result = "running"
    /\ ai_call' = AfterAttempt(ai_call, response)
    /\ UNCHANGED <<notifications, learnVars, recVars, sig, now, insights, race>>

NextAI == \E response \in Responses : Attempt(response)

SpecAI == InitAI /\ [][NextAI]_vars

-----------------------------------------------------------------------------
(* The notifications table and the retry job of the worker.  A run of      *)
(* retry_failed_notifications is one step; the answer of                   *)
(* dispatcher.retry_notification for each notification is "sent" (a SENT   *)
(* result), "failed" (a FAILED result) or "raise" (an exception that is    *)
(* not a database error, such as MultipleResultsFound of                   *)
(* scalar_one_or_none when two enabled settings rows name the channel).    *)

MaxNotifications == 2

MaxRuns == 3

\* Notification.max_attempts, the column default
max_attempts == 3

RetryOutcomes == {"sent", "failed", "raise"}

\* the Notification send_outfit_notification records: sent when a channel
\* delivered (attempts keeps the column default 0), else retrying with
\* attempts = 1
NewNotification(success) ==
    IF success
    THEN [status |-> "sent", attempts |-> 0, max_attempts |-> max_attempts]
    ELSE [status |-> "retrying", attempts |-> 1, max_attempts |-> max_attempts]

\* the rows the select of retry_failed_notifications returns
RetrySelected(table) ==
    {n \in DOMAIN table :
        table[n].status = "retrying" /\ table[n].attempts < table[n].max_attempts}

\* the loop of retry_failed_notifications over the selected rows in the
\* order `order`: `session` holds the rows as the session has changed them,
\* `stored` what is committed; a commit stores everything the session has
\* changed, and what is not committed when the loop ends is lost at close
RECURSIVE RetryLoop(_, _, _, _)
RetryLoop(stored, session, order, outcome) ==
    IF order = <<>> THEN stored
    ELSE LET n == Head(order)
             tried == [session EXCEPT ![n].attempts = @ + 1]
             exhausted == tried[n].attempts >= tried[n].max_attempts
             after == IF outcome[n] = "sent"
                      THEN [tried EXCEPT ![n].status = "sent"]
                      ELSE IF exhausted
                      THEN [tried EXCEPT ![n].status = "failed"]
                      ELSE tried
             commits == outcome[n] # "raise" \/ exhausted
         IN  RetryLoop(IF commits THEN after ELSE stored, after,
                       Tail(order), outcome)

\* send_outfit_notification, by whether a channel delivered
SendOutfitNotification(success) ==
    /\ Len(notifications) < MaxNotifications
    /\ notifications' = Append(notifications, NewNotification(success))
    /\ last_call' = [op |-> "send_outfit_notification", order |-> <<>>,
                     outcome |-> <<>>]
    /\ UNCHANGED <<ai_call, recVars, sig, now, insights, race, outfits, items,
                   pair_scores, performances, profile, calls>>

\* one run of the cron job retry_failed_notifications
RetryFailedNotifications ==
    /\ calls < MaxRuns
    /\ calls' = calls + 1
    /\ \E order \in Perms(RetrySelected(notifications)) :
         \E outcome \in [RetrySelected(notifications) -> RetryOutcomes] :
            /\ notifications' = RetryLoop(notifications, notifications, order, outcome)
            /\ last_call' = [op |-> "retry_failed_notifications", order |-> order,
                             outcome |-> outcome]
    /\ UNCHANGED <<ai_call, recVars, sig, now, insights, race, outfits, items,
                   pair_scores, performances, profile>>

InitNotify ==
    /\ notifications = <<>>
    /\ ai_call = NoAICall
    /\ sig = None
    /\ outfits = EmptyMap
    /\ items = [i \in Items |-> NewItem]
    /\ pair_scores = EmptyBag
    /\ performances = EmptyMap
    /\ profile = None
    /\ calls = 0
    /\ now = 0
    /\ insights = <<>>
    /\ race = NoRace
    /\ last_call = [op |-> "none", order |-> <<>>, outcome |-> <<>>]
    /\ NoRecommendation

NextNotify ==
    \/ \E success \in BOOLEAN : SendOutfitNotification(success)
    \/ RetryFailedNotifications

SpecNotify == InitNotify /\ [][NextNotify]_vars

-----------------------------------------------------------------------------
(* One call of LearningService._get_temp_bucket, for every temperature     *)
(* from -10.0 to 40.0 degrees in steps of 0.1.                             *)

Temperatures == (-100)..400

InitBucket ==
    /\ sig \in [temp : Temperatures, bucket : {"none"}]
    /\ outfits = EmptyMap
    /\ items = [i \in Items |-> NewItem]
    /\ pair_scores = EmptyBag
    /\ performances = EmptyMap
    /\ profile = None
    /\ calls = 0
    /\ now = 0
    /\ insights = <<>>
    /\ race = NoRace
    /\ ai_call = NoAICall
    /\ notifications = <<>>
    /\ last_call = [op |-> "none", outfit |-> 0, request |-> NoRequest,
                    learning |-> "skipped", status_code |-> 0]
    /\ NoRecommendation

GetTempBucket ==
    /\ sig.bucket = "none"
    /\ sig' = [sig EXCEPT !.bucket = _get_temp_bucket(sig.temp)]
    /\ UNCHANGED <<auxVars, learnVars, recVars, now, insights, race>>

NextBucket == GetTempBucket

SpecBucket == InitBucket /\ [][NextBucket]_vars

-----------------------------------------------------------------------------
(* Properties of the learning tables (Spec).                               *)

PairRows == BagToSet(pair_scores)

LearningRan == last_call.op = "submit_feedback" /\ last_call.learning = "ok"

\* C2: there is at most one ItemPairScore row per user and unordered pair of
\* items, and every row has item1_id < item2_id, whatever the order of the
\* items in the outfit or in the wore-instead list and whichever of the two
\* update paths wrote the row.
C2_PairRowsCanonical ==
    /\ \A r \in PairRows :
          /\ r.item1_id < r.item2_id
          /\ CopiesIn(r, pair_scores) = 1
    /\ \A r1, r2 \in PairRows :
          (/\ r1.user_id = r2.user_id
           /\ {r1.item1_id, r1.item2_id} = {r2.item1_id, r2.item2_id}) => r1 = r2

\* the row of items 1 and 2 written by both paths, the outfit listing its
\* items as 2, 1 and the wore-instead list naming them as 2, 1
C2_Witness ==
    /\ LearningRan
    /\ last_call.outfit \in DOMAIN outfits
    /\ outfits[last_call.outfit].items = <<2, 1>>
    /\ outfits[last_call.outfit].feedback[1].wore_instead_items = <<2, 1>>
    /\ \E r \in PairRows :
          r.item1_id = 1 /\ r.item2_id = 2 /\ r.times_paired >= 2

\* acceptance_rate and normalized_avg_rating of a row as fractions
AcceptanceNum(r) ==
    IF r.times_accepted + r.times_rejected = 0 THEN 1 ELSE r.times_accepted

AcceptanceDen(r) ==
    IF r.times_accepted + r.times_rejected = 0 THEN 2
    ELSE r.times_accepted + r.times_rejected

RatingNum(r) ==
    IF r.rating_count = 0 THEN 1 ELSE r.total_rating_sum - r.rating_count

RatingDen(r) == IF r.rating_count = 0 THEN 2 ELSE 4 * r.rating_count

\* score (in ten-thousandths) is the 4-place value nearest to
\* ((acceptance_rate * 0.6 + normalized_avg_rating * 0.4) * 2) - 1
IsFormulaScore(r, score) ==
    LET den == AcceptanceDen(r) * RatingDen(r)
        num == 12000 * AcceptanceNum(r) * RatingDen(r)
               + 8000 * RatingNum(r) * AcceptanceDen(r) - 10000 * den
        diff == score * den - num
    IN  2 * diff <= den /\ 2 * diff >= -den

\* C3: every row's compatibility_score is the value its own counters
\* determine: 0 when times_paired < 2, else the formula (to the 4 places
\* stored); no operation changes a counter without recomputing the score.
C3_ScoreFromCounters ==
    \A r \in PairRows :
        IF r.times_paired < 2 THEN r.compatibility_score = 0
        ELSE IsFormulaScore(r, r.compatibility_score)

\* a row counted by an outfit update and by a wore-instead update, with
\* acceptances, rejections and ratings, and a score that is not 0
C3_Witness ==
    \E r \in PairRows :
        /\ r.times_paired >= 3
        /\ r.times_accepted > 0 /\ r.times_rejected > 0
        /\ r.rating_count > 0
        /\ r.compatibility_score # 0

\* a row that was paired once and rated, scored 0
C3_FloorWitness ==
    \E r \in PairRows :
        r.times_paired = 1 /\ r.rating_count = 1 /\ r.compatibility_score = 0

\* the fields of the profile that C4 compares
LearnedFields(p) ==
    IF p = None THEN None
    ELSE Some([p[1] EXCEPT !.last_computed_at = None])

\* the profile was recomputed by the last request
Recomputed == last_call.op = "recompute" \/ LearningRan

RespondedColors ==
    UNION {{ItemColor(i)[1] : i \in {j \in Range(outfits[o].items) : ItemColor(j) # None}} :
              o \in {x \in DOMAIN outfits : outfits[x].status \in {"accepted", "rejected"}}}

\* C5: after any call of recompute_learning_profile the stored profile
\* scores no color that is not the primary color of an item of a currently
\* accepted or rejected outfit, also when no such outfit is left.
C5_NoStaleColors ==
    (Recomputed /\ profile # None)
        => DOMAIN profile[1].learned_color_scores \subseteq RespondedColors

C7_Case ==
    /\ LearningRan
    /\ calls = 1
    /\ last_call.request = [NoRequest EXCEPT !.accepted = Some(FALSE),
                                             !.rating = Some(2)]
    /\ Len(outfits[last_call.outfit].items) = 2

NoWoreInstead ==
    /\ DOMAIN outfits = 1..NOutfits
    /\ \A o \in DOMAIN outfits :
          outfits[o].feedback # None => outfits[o].feedback[1].wore_instead_items = <<>>

\* the outfits with feedback that hold both items of the pair row r
OutfitsWithPair(r) ==
    {o \in DOMAIN outfits :
        /\ outfits[o].feedback # None
        /\ {r.item1_id, r.item2_id} \subseteq Range(outfits[o].items)}

\* C19: however often feedback is submitted for an outfit, each pair of its
\* items is counted at most once on account of that outfit: the counters of
\* a pair row never exceed the number of outfits with feedback that hold
\* the pair.
C19_FeedbackConsumedOnce ==
    NoWoreInstead =>
        \A r \in PairRows :
            /\ r.times_paired <= Cardinality(OutfitsWithPair(r))
            /\ r.times_accepted + r.times_rejected <= Cardinality(OutfitsWithPair(r))
            /\ r.rating_count <= Cardinality(OutfitsWithPair(r))
            /\ r.total_rating_sum <= MaxRating * Cardinality(OutfitsWithPair(r))

\* C20: after a recomputation over at least one accepted or rejected
\* outfit, overall_acceptance_rate is accepted / (accepted + rejected), to
\* the 4 places stored, also when no outfit is accepted.
C20_AcceptanceRate ==
    (Recomputed /\ profile # None /\ RespondedOutfits(outfits) # <<>>) =>
        LET ids == RespondedOutfits(outfits)
            accepted == Len(SelectSeq(ids, LAMBDA o : outfits[o].status = "accepted"))
        IN  profile[1].overall_acceptance_rate
                = Some(RoundDiv(10000 * accepted, Len(ids)))

-----------------------------------------------------------------------------
(* The signal function on its own: every outfit status with every feedback.*)

SignalFeedback ==
    [rating : OptRating,
     worn_at : {None, Some("today")},
     worn_with_modifications : BOOLEAN,
     actually_worn : OptBool,
     wore_instead_items : {<<>>, <<1>>, <<2, 1>>}]

SignalOutfits ==
    [status : OutfitStatus,
     feedback : {None} \cup {Some(f) : f \in SignalFeedback}]

InitSignal ==
    /\ sig \in [outfit : SignalOutfits, result : {None}]
    /\ outfits = <<>>
    /\ items = <<>>
    /\ pair_scores = EmptyBag
    /\ performances = <<>>
    /\ profile = None
    /\ calls = 0
    /\ now = 0
    /\ insights = <<>>
    /\ race = NoRace
    /\ ai_call = NoAICall
    /\ notifications = <<>>
    /\ last_call = [op |-> "none", outfit |-> 0, request |-> NoRequest,
                    learning |-> "skipped", status_code |-> 0]
    /\ NoRecommendation

ComputeSignal ==
    /\ sig.result = None
    /\ sig' = [sig EXCEPT !.result = Some(_get_outfit_signal(sig.outfit))]
    /\ UNCHANGED <<auxVars, learnVars, recVars, now, insights, race>>

NextSignal == ComputeSignal

SpecSignal == InitSignal /\ [][NextSignal]_vars

-----------------------------------------------------------------------------
(* Properties of the signal function (SpecSignal).                         *)

SignalComputed == sig.result # None

\* C1: for every outfit status and every combination of feedback fields the
\* signal returned by _get_outfit_signal lies in [-1, 1] (here -1000..1000).
C1_SignalInRange ==
    SignalComputed => (sig.result[1] >= -1000 /\ sig.result[1] <= 1000)

\* a computed signal whose unclamped sum lies below -1
C1_Witness ==
    /\ SignalComputed
    /\ _get_outfit_signal_noclamp(sig.outfit) < -1000
    /\ sig.result[1] = -1000

\* the terms of the sum as the specification lists them
StatusTerm(o) ==
    CASE o.status = "accepted" -> 300
      [] o.status = "rejected" -> -500
      [] OTHER -> 0

RatingTerm(o) ==
    IF o.feedback # None /\ o.feedback[1].rating # None
    THEN (o.feedback[1].rating[1] - 3) * 200
    ELSE 0

WornTerm(o) ==
    IF o.feedback # None /\ o.feedback[1].worn_at # None
    THEN IF o.feedback[1].worn_with_modifications THEN 200 ELSE 300
    ELSE 0

NotWornTerm(o) ==
    IF o.feedback # None /\ o.feedback[1].actually_worn = Some(FALSE)
    THEN IF Len(o.feedback[1].wore_instead_items) > 0 THEN -600 ELSE -400
    ELSE 0

TermSum(o) == StatusTerm(o) + RatingTerm(o) + WornTerm(o) + NotWornTerm(o)

\* C8: the signal equals the sum of the status term, the rating term, the
\* worn term and the not-worn term, clamped to [-1, 1]; nothing else
\* contributes.
C8_SignalIsClampedSum ==
    SignalComputed =>
        sig.result[1] = (IF TermSum(sig.outfit) > 1000 THEN 1000
                         ELSE IF TermSum(sig.outfit) < -1000 THEN -1000
                         ELSE TermSum(sig.outfit))

\* a computed signal to which all four terms contribute
C8_Witness ==
    /\ SignalComputed
    /\ StatusTerm(sig.outfit) # 0
    /\ RatingTerm(sig.outfit) # 0
    /\ WornTerm(sig.outfit) = 200
    /\ NotWornTerm(sig.outfit) = -600

\* the outfit of C9: accepted, rated 5, worn, explicitly not worn, with
\* substitutes named
C9_Case ==
    /\ sig.outfit.status = "accepted"
    /\ sig.outfit.feedback # None
    /\ sig.outfit.feedback[1].rating = Some(5)
    /\ sig.outfit.feedback[1].worn_at # None
    /\ sig.outfit.feedback[1].actually_worn = Some(FALSE)
    /\ sig.outfit.feedback[1].wore_instead_items # <<>>

\* C9 as stated: for that outfit the computed signal is exactly -1.0.
C9_Original ==
    (SignalComputed /\ C9_Case) => sig.result[1] = -1000

\* C9 as amended: for that outfit the computed signal is 0.4 when
\* worn_with_modifications is false and 0.3 when it is true; the clamp does
\* not act.
C9_SignalOfCase ==
    (SignalComputed /\ C9_Case) =>
        /\ sig.result[1] = (IF sig.outfit.feedback[1].worn_with_modifications
                            THEN 300 ELSE 400)
        /\ sig.result[1] = _get_outfit_signal_noclamp(sig.outfit)

C9_Witness ==
    /\ SignalComputed
    /\ C9_Case
    /\ ~ sig.outfit.feedback[1].worn_with_modifications
    /\ sig.result = Some(400)

-----------------------------------------------------------------------------
(* Properties of the recommendation (SpecRec).                             *)

\* the user's ready, unarchived items that are named in include_items or
\* pass every filter
Remaining ==
    {i \in Items :
        /\ closet[i].user_id = USER
        /\ closet[i].status = "ready"
        /\ closet[i].is_archived = FALSE
        /\ \/ i \in Range(rec.include_items)
           \/ /\ items[i].needs_wash = FALSE
              /\ i \notin Range(rec.exclude_items)
              /\ preferences # None =>
                    /\ i \notin Range(preferences[1].excluded_item_ids)
                    /\ preferences[1].avoid_repeat_days > 0 => i \notin item_history}

\* C10: once the weather is known, generate_recommendation raises
\* InsufficientWardrobeError, calls no AI service and creates no Outfit row
\* when fewer than 2 candidates remain after filtering and force-inclusion;
\* with exactly 2 it does not raise that error and calls the AI service.
C10_CandidateFloor ==
    (rec.result \notin {"none", "ValueError"}) =>
        /\ Cardinality(Remaining) < 2 =>
              /\ rec.result = "InsufficientWardrobeError"
              /\ rec.ai_called = FALSE
              /\ outfits = EmptyMap
        /\ Cardinality(Remaining) = 2 =>
              /\ rec.result # "InsufficientWardrobeError"
              /\ rec.ai_called = TRUE

\* the error with exactly one item left, two more of the user's ready items
\* being filtered out and nothing force-included
C10_Witness ==
    /\ rec.result = "InsufficientWardrobeError"
    /\ rec.include_items = <<>>
    /\ Cardinality(Remaining) = 1
    /\ Len(rec.candidates) = 1
    /\ Cardinality({i \in Items : IsReadyItem(i)}) = 3
    /\ rec.ai_called = FALSE
    /\ outfits = EmptyMap

\* exactly two candidates, one of them force-included, and an outfit created
C10_TwoWitness ==
    /\ rec.result = "outfit"
    /\ Cardinality(Remaining) = 2
    /\ rec.include_items # <<>>
    /\ outfits # EmptyMap

\* generate_recommendation got as far as its candidate list
CandidatesBuilt == rec.result \notin {"none", "ValueError", "candidates"}

\* C12 as stated: every item of the user named in include_items is a
\* candidate, whatever its status or archival.
C12_Original ==
    CandidatesBuilt =>
        \A i \in Range(rec.include_items) :
            closet[i].user_id = USER => i \in Range(rec.candidates)

\* C12: an item of the user named in include_items is a candidate exactly
\* when it is ready and not archived, whichever of request-level exclusion,
\* preference-level exclusion, recent wear or needing wash applies to it.
C12_ForceIncluded ==
    CandidatesBuilt =>
        \A i \in Range(rec.include_items) :
            closet[i].user_id = USER =>
                (i \in Range(rec.candidates)
                    <=> (closet[i].status = "ready" /\ closet[i].is_archived = FALSE))

\* item 1 is a candidate although the request excludes it, it needs a wash
\* and it was worn within the avoid-repeat window
C12_Witness ==
    /\ CandidatesBuilt
    /\ rec.include_items = <<1>>
    /\ rec.exclude_items = <<1>>
    /\ items[1].needs_wash
    /\ preferences # None
    /\ preferences[1].avoid_repeat_days > 0
    /\ 1 \in item_history
    /\ 1 \in Range(rec.candidates)

\* the AI service answered and its answer was parsed
ResponseParsed == CandidatesBuilt /\ rec.ai_called /\ rec.response # None

\* the entry is a number that is a key of the number map 1..n
IsMapKey(num, n) ==
    \/ num.kind \in {"int", "str"} /\ num.val \in 1..n
    \/ num.kind = "float" /\ num.val % 10 = 0 /\ (num.val \div 10) \in 1..n

KeyOf(num) == IF num.kind = "float" THEN num.val \div 10 ELSE num.val

\* the images of the response entries that are keys of the map, in order
KeyImages ==
    LET n == Len(rec.candidates)
        kept == SelectSeq(rec.response[1], LAMBDA num : IsMapKey(num, n))
    IN  [k \in 1..Len(kept) |-> rec.candidates[KeyOf(kept[k])]]

\* C13: for a parsed response the items of the created outfit are the
\* images, under the number map 1..N of the candidates, of the response
\* numbers that are keys of the map; other entries are dropped; when no
\* item survives, AIRecommendationError is raised and no outfit is stored.
C13_NumberMap ==
    ResponseParsed =>
        /\ KeyImages = <<>> =>
              rec.result = "AIRecommendationError" /\ outfits = EmptyMap
        /\ rec.result = "outfit" =>
              /\ DOMAIN outfits = {1}
              /\ outfits[1].items = KeyImages

\* the entry as int() converts it, fractions cut off
TruncatedKey(num) ==
    IF num.kind = "float" THEN num.val \div 10 ELSE num.val

\* the same property when a number with a fraction counts as the key it is
\* truncated to (no entry of the model is negative)
C13_NumberMapTruncating ==
    ResponseParsed =>
        LET n == Len(rec.candidates)
            kept == SelectSeq(rec.response[1],
                        LAMBDA num : num.kind # "text" /\ TruncatedKey(num) \in 1..n)
            images == [k \in 1..Len(kept) |-> rec.candidates[TruncatedKey(kept[k])]]
        IN  /\ images = <<>> =>
                  rec.result = "AIRecommendationError" /\ outfits = EmptyMap
            /\ rec.result = "outfit" =>
                  /\ DOMAIN outfits = {1}
                  /\ outfits[1].items = images

\* why the attempt failed, read from what the request met
FailureCause ==
    IF Len(rec.candidates) < 2 THEN "too_few_candidates"
    ELSE IF rec.content = None THEN "ai_unreachable"
    ELSE "bad_ai_output"

\* the cause each reported reason stands for
ReportedCause ==
    IF suggest_outfit_status(rec.result) = 400
       /\ rec.detail = "Not enough items in wardrobe"
    THEN "too_few_candidates"
    ELSE IF suggest_outfit_status(rec.result) = 503
            /\ rec.detail = "AI service is not available"
    THEN "ai_unreachable"
    ELSE IF suggest_outfit_status(rec.result) = 503
            /\ rec.detail = "AI did not select any valid items"
    THEN "bad_ai_output"
    ELSE "none"

\* C15: the status and message of a failed recommendation tell its cause:
\* too few candidates, AI service unreachable, or AI output that cannot be
\* parsed or selects no valid item; no two causes share a report.
C15_ReasonTellsCause ==
    (rec.result \in {"InsufficientWardrobeError", "AIRecommendationError"}) =>
        ReportedCause = FailureCause

\* output that is parsed but selects no valid item is told apart
C15_NoValidItemTold ==
    (/\ rec.result = "AIRecommendationError"
     /\ rec.response # None) =>
        /\ rec.detail = "AI did not select any valid items"
        /\ ReportedCause = FailureCause

-----------------------------------------------------------------------------
(* Properties of the wear events (SpecWear).                               *)

\* C11: with avoid_repeat_days > 0, an item whose last wear (logged directly
\* or through outfit feedback) is of the user's today is not in the list
\* get_candidate_items returns.
C11_RecentlyWornExcluded ==
    (/\ last_call.op = "get_candidate_items"
     /\ preferences # None
     /\ preferences[1].avoid_repeat_days > 0) =>
        \A i \in Items :
            items[i].last_worn_at = Some("today") => i \notin Range(rec.candidates)

\* the same for the direct wear log alone, which the code does filter
C11_LoggedWearExcluded ==
    (/\ last_call.op = "get_candidate_items"
     /\ preferences # None
     /\ preferences[1].avoid_repeat_days > 0) =>
        \A i \in item_history : i \notin Range(rec.candidates)

-----------------------------------------------------------------------------
(* Properties of the response parser (SpecParse).                          *)

Undecorated(content) == ~content.prose /\ ~content.fence /\ ~content.comments

\* (a) clean object, (b) fenced object, (c) object with // comments,
\* (d) object preceded by prose
IsObjectShape(content) ==
    /\ content.body = "object"
    /\ \/ Undecorated(content)
       \/ content.fence /\ ~content.prose /\ ~content.comments
       \/ content.comments /\ ~content.prose /\ ~content.fence
       \/ content.prose /\ ~content.fence /\ ~content.comments

\* (e) bare array of the numbers
IsBareArray(content) == content.body = "array" /\ Undecorated(content)

\* C14: a response in any of the five shapes (a)-(e) yields the item numbers
\* it carries, so the five shapes of one list select the same items.
C14_ShapesEquivalent ==
    (/\ parse.result # "none"
     /\ parse.content[1].numbers # <<>>
     /\ IsObjectShape(parse.content[1]) \/ IsBareArray(parse.content[1])) =>
        parse.selected = Some(parse.content[1].numbers)

\* the four object shapes (a)-(d) alone do yield the numbers they carry
C14_ObjectShapesEquivalent ==
    (parse.result # "none" /\ IsObjectShape(parse.content[1])) =>
        parse.selected = Some(parse.content[1].numbers)


-----------------------------------------------------------------------------
(* Properties of the hourly job (SpecSweep).                               *)

\* an accepted or rejected outfit whose response is later than the last
\* computation of the profile, or whose user has no computed profile
Unreflected(o) ==
    /\ outfits[o].status \in {"accepted", "rejected"}
    /\ outfits[o].responded_at # None
    /\ \/ profile = None
       \/ profile[1].last_computed_at = None
       \/ outfits[o].responded_at[1] > profile[1].last_computed_at[1]

\* C16: a run of update_learning_profiles that finds an accepted or rejected
\* outfit with a response later than the last computation of the profile
\* (or no computed profile) recomputes the profile.
C16_SweepRecomputesStale ==
    [][(update_learning_profiles /\ \E o \in DOMAIN outfits : Unreflected(o))
        => profile' = recompute_learning_profile(outfits, profile)]_vars


-----------------------------------------------------------------------------
(* Properties of the concurrent requests (SpecRace).                       *)

BothDone == \A p \in Procs : race.proc[p].pc = "done"

\* C17: when the two concurrent requests have finished, the stored profile
\* equals in every field the output of the recomputation that committed
\* last.
C17_LastWriterWins ==
    (BothDone /\ race.order # <<>>) =>
        profile = race.proc[race.order[Len(race.order)]].computed

\* both requests found the row of their pair when they selected it
BothReadPair == \A p \in Procs : race.proc[p].pair # None

\* the row of the pair of items 1 and 2
ThePair == CHOOSE r \in FindPairScores(pair_scores, USER, 1, 2) : TRUE

\* C18: with an existing pair row, the two concurrent requests leave
\* times_paired one above the larger of the two values they read: nothing
\* adds the increment of one request to a value the other has written
\* after that read, so requests that read the same value count once.
C18_LostUpdate ==
    (BothDone /\ BothReadPair) =>
        ThePair.times_paired
            = Max(race.proc[1].pair[1].times_paired,
                  race.proc[2].pair[1].times_paired) + 1

\* both requests read the same times_paired and the row has grown by 1
C18_Witness ==
    /\ BothDone
    /\ BothReadPair
    /\ race.proc[1].pair[1].times_paired = race.proc[2].pair[1].times_paired
    /\ race.proc[1].learning = "ok" /\ race.proc[2].learning = "ok"
    /\ ThePair.times_paired = race.proc[1].pair[1].times_paired + 1


-----------------------------------------------------------------------------
(* Properties of the insight table (SpecInsight).                          *)

\* the step is acknowledge_insight of row k by its owner
AcknowledgedByOwner(k) ==
    /\ last_call'.op = "acknowledge_insight"
    /\ last_call'.outfit = k
    /\ last_call'.status_code = 200
    /\ insights'[k] = [insights[k] EXCEPT !.is_acknowledged = TRUE,
                                          !.acknowledged_at = Some(now)]

\* C21 as stated: every row stays in the table with unchanged content, the
\* only change being is_acknowledged going from false to true, with
\* acknowledged_at set, through acknowledge_insight by the owner.
C21_AppendOnly ==
    [][\A k \in DOMAIN insights :
          /\ k \in DOMAIN insights'
          /\ \/ insights'[k] = insights[k]
             \/ /\ ~insights[k].is_acknowledged
                /\ AcknowledgedByOwner(k)]_vars

\* C21 amended: every row stays in the table with unchanged content, the
\* only change being that acknowledge_insight by the owner sets
\* is_acknowledged to true and acknowledged_at to the time of the call,
\* also for a row that is acknowledged already; is_acknowledged never goes
\* back to false.
C21_AppendOnlyAcknowledge ==
    [][\A k \in DOMAIN insights :
          /\ k \in DOMAIN insights'
          /\ \/ insights'[k] = insights[k]
             \/ AcknowledgedByOwner(k)
          /\ insights[k].is_acknowledged => insights'[k].is_acknowledged]_vars

\* an acknowledged insight followed by rows of a later generation, while
\* feedback was given and the profile recomputed
C21_Witness ==
    /\ Len(insights) >= 2
    /\ insights[1].is_acknowledged
    /\ insights[1].acknowledged_at # None
    /\ insights[1].acknowledged_at[1] <= insights[Len(insights)].created_at
    /\ ~insights[Len(insights)].is_acknowledged
    /\ last_call.op = "recompute"


\* the score that triggered an insight, in ten-thousandths: the learned
\* score of its first color or style, or the acceptance rate
TriggerScore(row, p) ==
    CASE row.category = "color" -> 10 * p.learned_color_scores[row.subject[1]]
      [] row.category = "style" -> 10 * p.learned_style_scores[row.subject[1]]
      [] OTHER -> p.overall_acceptance_rate[1]

\* C22: every row that generate_insights adds has a confidence equal to the
\* magnitude of its triggering score, clamped at 0.9, 0.95 or 1, and expires
\* 30 days after the time of generation.
C22_ConfidenceAndExpiry ==
    [][Len(insights') > Len(insights) =>
          \A k \in (Len(insights) + 1)..Len(insights') :
              /\ insights'[k].created_at = now
              /\ insights'[k].expires_at = now + InsightLifetime
              /\ \E cap \in {9000, 9500, 10000} :
                    10 * insights'[k].confidence
                        = Min(cap, Abs(TriggerScore(insights'[k], profile'[1])))]_vars


-----------------------------------------------------------------------------
(* Properties of the performance counters of the pair rows (Spec).         *)

\* signal_strength of _update_item_pair_scores after its three steps, in
\* thousandths
CombinedSignal(feedback) ==
    (IF feedback.accepted = None THEN 0
     ELSE IF feedback.accepted[1] THEN 300 ELSE -300)
    + (IF feedback.rating # None THEN (feedback.rating[1] - 3) * 150 ELSE 0)
    + (IF feedback.worn_at # None THEN 200 ELSE 0)

\* the "positive" counter under `key` of the performance map `field` of
\* the row of the pair `ids`, 0 where there is none
PositiveCount(rows, ids, field, key) ==
    LET found == {r \in BagToSet(rows) :
                     r.item1_id = ids[1] /\ r.item2_id = ids[2]}
    IN  IF found = {} THEN 0
        ELSE LET perf == (CHOOSE r \in found : TRUE)[field]
             IN  IF key \in DOMAIN perf THEN perf[key].positive ELSE 0

\* C24: when the learning step counts an outfit, the "positive" counter of
\* the occasion entry and of the weather entry of each of its pairs grows
\* by one if and only if the combined signal of the feedback is above 0.
C24_PositiveIffSignal ==
    [][(last_call'.op = "submit_feedback" /\ last_call'.learning = "ok"
        /\ pair_scores' # pair_scores)
       => LET outfit == outfits'[last_call'.outfit]
              pairs == Combinations2(outfit.items)
          IN  \A k \in DOMAIN pairs :
                LET ids == CanonicalPair(pairs[k][1], pairs[k][2])
                    grown == CombinedSignal(outfit.feedback[1]) > 0
                IN  /\ (PositiveCount(pair_scores', ids, "occasion_performance",
                                      outfit.occasion)
                          - PositiveCount(pair_scores, ids, "occasion_performance",
                                          outfit.occasion) = 1) <=> grown
                    /\ outfit.weather_data # None =>
                         ((PositiveCount(pair_scores', ids, "weather_performance",
                                         _get_temp_bucket(outfit.weather_data[1]))
                            - PositiveCount(pair_scores, ids, "weather_performance",
                                            _get_temp_bucket(outfit.weather_data[1]))
                            = 1) <=> grown)]_vars

-----------------------------------------------------------------------------
(* Properties of the wore-instead boost (SpecInstead).                     *)

\* the pair rows counted once through a rejected outfit and once through a
\* wore-instead list, and through nothing else
RejectedAndWornInstead ==
    IF calls = 1 /\ LearningRan
    THEN {r \in PairRows : r.times_paired = 2 /\ r.times_rejected = 1
                           /\ r.times_accepted = 1}
    ELSE {}

\* C25: a pair counted once through a rejected recommended outfit, with any
\* rating or none, and once through a wore-instead list has a compatibility
\* score above 0.
C25_WoreInsteadOutweighs ==
    \A r \in RejectedAndWornInstead : r.compatibility_score > 0

-----------------------------------------------------------------------------
(* Properties of the wear tracking of submit_feedback (SpecWorn).          *)

\* C26: once the feedback of an outfit has worn_at set, a later submission
\* for that outfit changes no item's wear_count, wears_since_wash,
\* last_worn_at or needs_wash and leaves worn_at at its first value.
C26_WearCountedOnce ==
    [][\A o \in DOMAIN outfits :
          (/\ outfits[o].feedback # None
           /\ outfits[o].feedback[1].worn_at # None
           /\ calls' = calls + 1
           /\ last_call'.op = "submit_feedback"
           /\ last_call'.outfit = o)
          => /\ items' = items
             /\ outfits'[o].feedback # None
             /\ outfits'[o].feedback[1].worn_at = outfits[o].feedback[1].worn_at]_vars

\* an outfit worn today got feedback with worn = true again tomorrow, and
\* its items still count one wear, today
C26_Witness ==
    /\ calls = 2
    /\ now = HalfHoursPerDay
    /\ last_call.op = "submit_feedback"
    /\ last_call.outfit = 1
    /\ last_call.request.worn = Some(TRUE)
    /\ outfits[1].feedback # None
    /\ outfits[1].feedback[1].worn_at = Some("today")
    /\ \A i \in Range(outfits[1].items) :
          items[i].wear_count = 1 /\ items[i].last_worn_at = Some("today")

-----------------------------------------------------------------------------
(* Properties of AIService.generate_text (SpecAI).                         *)

AIRaised == ai_call.result \notin {"none", "running", "returned"}

\* the endpoints are the user's enabled endpoints in their order and then
\* the default endpoint
EndpointsInOrder ==
    LET E == ai_call.endpoints
        U == ai_call.user_endpoints
    IN  /\ E # <<>>
        /\ E[Len(E)] = "default"
        /\ \A j \in 1..(Len(E) - 1) :
              \E k \in DOMAIN U : E[j] = EndpointName(k) /\ U[k].enabled
        /\ \A k \in DOMAIN U :
              U[k].enabled => \E j \in 1..(Len(E) - 1) : E[j] = EndpointName(k)
        /\ \A i, j \in 1..(Len(E) - 1) : i < j => E[i][2] < E[j][2]

\* the attempts go through the endpoints in order, ai_max_retries at most
\* on each, and there are never more than endpoints x ai_max_retries
AttemptsInOrder ==
    /\ \A k \in DOMAIN ai_call.attempts :
          ai_call.attempts[k].endpoint
              = ai_call.endpoints[(k - 1) \div ai_max_retries + 1]
    /\ Len(ai_call.attempts) <= Len(ai_call.endpoints) * ai_max_retries
    /\ Len(ai_call.attempts) = Len(ai_call.endpoints) * ai_max_retries
          => ai_call.result # "running"

\* what is returned is the content of the first successful attempt, which
\* is the last attempt made
ReturnsFirstSuccess ==
    LET a == ai_call.attempts
    IN  /\ ai_call.result = "returned" =>
              /\ a # <<>>
              /\ a[Len(a)].response.status = "ok"
              /\ ai_call.content = a[Len(a)].response.content
        /\ \A k \in DOMAIN a : a[k].response.status = "ok" =>
              k = Len(a) /\ ai_call.result = "returned"

\* an error is raised only when every endpoint has used all its attempts
RaisesOnlyWhenExhausted ==
    AIRaised => Len(ai_call.attempts) = Len(ai_call.endpoints) * ai_max_retries

\* C27: generate_text tries the user's enabled endpoints in order and the
\* default endpoint last, at most ai_max_retries times each, returns the
\* content of the first successful attempt without contacting a later
\* endpoint, raises only after every endpoint has used all its attempts,
\* and makes at most endpoints x ai_max_retries attempts.
C27_GenerateText ==
    /\ EndpointsInOrder
    /\ AttemptsInOrder
    /\ ReturnsFirstSuccess
    /\ RaisesOnlyWhenExhausted

-----------------------------------------------------------------------------
(* The counters of a pair row (Spec).                                      *)

\* every entry of a performance map has 0 <= positive <= count
PerformanceInRange(perf) ==
    \A key \in DOMAIN perf :
        0 <= perf[key].positive /\ perf[key].positive <= perf[key].count

-----------------------------------------------------------------------------
(* The OutfitItem rows of a recommendation (SpecRec).                      *)

\* C29: once the model was asked, generate_recommendation either fails with
\* AIRecommendationError or stores an outfit whose OutfitItem rows refer to
\* pairwise distinct items; it never tries to store one (outfit, item) pair
\* twice.
C29_DistinctOutfitItems ==
    (CandidatesBuilt /\ rec.ai_called) =>
        \/ rec.result = "AIRecommendationError"
        \/ /\ rec.result = "outfit"
           /\ \A o \in DOMAIN outfits : IsInjective(outfits[o].items)

-----------------------------------------------------------------------------
(* Properties of the retry job (SpecNotify).                               *)

\* the step is a run of the retry job
RetryRun == calls' = calls + 1 /\ last_call'.op = "retry_failed_notifications"

-----------------------------------------------------------------------------
(* Properties of the temperature buckets (SpecBucket).                     *)

\* the bucket the specification gives a temperature, in tenths of a degree
SpecifiedBucket(t) ==
    CASE t < 50 -> "cold"
      [] 50 <= t /\ t < 150 -> "cool"
      [] 150 <= t /\ t < 250 -> "mild"
      [] t >= 250 -> "hot"

\* C23: the bucket of t is cold below 5, cool from 5 to below 15, mild from
\* 15 to below 25 and hot from 25; 4.9 is cold, 5.0 and 14.9 are cool, 15.0
\* and 24.9 are mild and 25.0 is hot.
C23_TempBucket ==
    sig.bucket # "none" =>
        /\ sig.bucket = SpecifiedBucket(sig.temp)
        /\ sig.temp = 49 => sig.bucket = "cold"
        /\ sig.temp \in {50, 149} => sig.bucket = "cool"
        /\ sig.temp \in {150, 249} => sig.bucket = "mild"
        /\ sig.temp = 250 => sig.bucket = "hot"

\* the bucket of 5.0 degrees was computed
C23_Witness == sig.temp = 50 /\ sig.bucket = "cool"

====
